---------------------------- MODULE Spec2Model ----------------------------
(***************************************************************************)
(* A model of the state_representation library of control-libraries:      *)
(* State, SpatialState and JointState (space/joint), the compatibility    *)
(* predicates, the JointState algebra, and CartesianPose and               *)
(* CartesianAcceleration.                                                  *)
(*                                                                         *)
(* Objects are records.  Every object carries `kind` (its dynamic C++     *)
(* class, which decides dynamic_cast and virtual dispatch) and the State   *)
(* members type_, name_, empty_.  A method is an operator that returns a   *)
(* call record [outcome, state, value]: outcome is "ok" or the name of the *)
(* exception thrown, state the receiver after the call, value what the     *)
(* call returned.                                                          *)
(***************************************************************************)
EXTENDS Integers, Sequences, FiniteSets, TLC

VARIABLES
  spatial,  \* the objects of the spatial program: [ObjIds -> object]
  sret,     \* the last is_incompatible call of the spatial program
  js,       \* the JointState object under test (NoObject before construction)
  ret,      \* the last call made on js (NoCall when none was made yet)
  cart,     \* the Cartesian object under test (NoObject before construction)
  cret,     \* the last call made on cart (NoCall when none was made yet)
  timed,    \* the States of the timestamp program: [TimedIds -> object]
  now,      \* what std::chrono::steady_clock::now() returns, in clock ticks
  tret      \* the last call of the timestamp program

vars == <<spatial, sret, js, ret, cart, cret, timed, now, tret>>

(***************************************************************************)
(* Bounds of the model.                                                    *)
(***************************************************************************)
NumNames == 3      \* how many object / frame names the spatial program uses
MaxJoints == 2     \* the largest joint count of a JointState
MantissaBits == 4  \* the significant bits of a double (53 in the C++ build)
MaxTime == 3       \* how many ticks the steady clock advances

NamePool == <<"ee", "base", "world", "tool", "camera">>
Names == {NamePool[i] : i \in 1..NumNames}
ObjIds == {"A", "B", "C"}
TimedIds == {"X", "Y"}

NoObject == [kind |-> "none"]
NoCall == [op |-> "none"]
NoValue == "void"

\* A call that returned normally / that threw.
Returned(st, val) == [outcome |-> "ok", state |-> st, value |-> val]
Threw(exc, st) == [outcome |-> exc, state |-> st, value |-> NoValue]

(***************************************************************************)
(* double.  A value is a pair <<n, d>> standing for n/d in lowest terms    *)
(* with d >= 0: <<1, 0>> is +inf, <<-1, 0>> is -inf and <<0, 0>> is NaN.   *)
(* A double holds MantissaBits significant bits: the result of +, -, * and *)
(* / is rounded to the nearest such value, ties to even, as IEEE 754 does. *)
(* The exponent is not bounded (no overflow or underflow) and the sign of  *)
(* zero is not modelled; the infinities and NaN follow IEEE 754.           *)
(***************************************************************************)
RECURSIVE Gcd(_, _)
Gcd(a, b) == IF b = 0 THEN a ELSE Gcd(b, a % b)

IAbs(i) == IF i < 0 THEN -i ELSE i
ISign(i) == IF i < 0 THEN -1 ELSE IF i > 0 THEN 1 ELSE 0

\* n/d in lowest terms, the sign carried by the numerator.
Norm(n, d) ==
  IF d = 0 THEN <<ISign(n), 0>>
  ELSE LET g == Gcd(IAbs(n), IAbs(d))
           sg == ISign(d)
       IN <<(sg * n) \div g, IAbs(d) \div g>>

D(i) == <<i, 1>>
PInf == <<1, 0>>
NInf == <<-1, 0>>
NaN == <<0, 0>>
IsNaN(x) == x = NaN
IsInf(x) == x[2] = 0 /\ x[1] # 0
IsFinite(x) == x[2] # 0

\* The positive rational a/d rounded to MantissaBits significant bits: the
\* value is halved or doubled until its integer part has exactly that many
\* bits, the integer part is rounded to nearest (ties to even), and the
\* scaling is undone.
RECURSIVE RoundPos(_, _)
RoundPos(a, d) ==
  IF a >= d * 2^MantissaBits
    THEN LET h == RoundPos(a, 2 * d) IN Norm(2 * h[1], h[2])
  ELSE IF a < d * 2^(MantissaBits - 1)
    THEN LET t == RoundPos(2 * a, d) IN Norm(t[1], 2 * t[2])
  ELSE LET q == a \div d
           r == a % d
       IN IF 2 * r > d \/ (2 * r = d /\ q % 2 = 1) THEN D(q + 1) ELSE D(q)

\* The double nearest to the exact value x.
Round(x) ==
  IF x[2] = 0 \/ x[1] = 0 THEN x
  ELSE LET m == RoundPos(IAbs(x[1]), x[2]) IN <<ISign(x[1]) * m[1], m[2]>>

DNeg(x) == <<-x[1], x[2]>>
DMul(x, y) == Round(Norm(x[1] * y[1], x[2] * y[2]))
DAdd(x, y) ==
  IF IsNaN(x) \/ IsNaN(y) THEN NaN
  ELSE IF IsInf(x) /\ IsInf(y) THEN (IF x = y THEN x ELSE NaN)
  ELSE Round(Norm(x[1] * y[2] + y[1] * x[2], x[2] * y[2]))
DSub(x, y) == DAdd(x, DNeg(y))
\* 1 / x
DInv(x) == Round(Norm(x[2] * (IF x[1] < 0 THEN -1 ELSE 1), IAbs(x[1])))
\* x / y, one division
DDiv(x, y) ==
  IF y[1] < 0 THEN Round(Norm(-(x[1] * y[2]), x[2] * (-y[1])))
  ELSE Round(Norm(x[1] * y[2], x[2] * y[1]))
DAbs(x) == <<IAbs(x[1]), x[2]>>

\* The square root of the positive rational n/d, correctly rounded: the
\* value is scaled by powers of 4 until its root has MantissaBits bits in
\* its integer part, which is found and rounded to nearest (ties to even).
RECURSIVE SqrtPos(_, _)
SqrtPos(n, d) ==
  IF n >= d * 4^MantissaBits
    THEN LET h == SqrtPos(n, 4 * d) IN Norm(2 * h[1], h[2])
  ELSE IF n < d * 4^(MantissaBits - 1)
    THEN LET t == SqrtPos(4 * n, d) IN Norm(t[1], 2 * t[2])
  ELSE LET m == CHOOSE k \in 2^(MantissaBits - 1)..(2^MantissaBits - 1) :
                  k * k * d <= n /\ n < (k + 1) * (k + 1) * d
           half == (4 * m * m + 4 * m + 1) * d
       IN IF 4 * n > half \/ (4 * n = half /\ m % 2 = 1)
            THEN D(m + 1) ELSE D(m)

\* std::sqrt
DSqrt(x) ==
  IF IsNaN(x) \/ x[1] < 0 THEN NaN
  ELSE IF x[1] = 0 \/ x[2] = 0 THEN x
  ELSE SqrtPos(x[1], x[2])
\* x < y, x > y and x != y of C++: every comparison with NaN but != is false.
DLt(x, y) ==
  IF IsNaN(x) \/ IsNaN(y) THEN FALSE
  ELSE IF IsInf(x) /\ IsInf(y) THEN x[1] < y[1]
  ELSE x[1] * y[2] < y[1] * x[2]
DGt(x, y) == DLt(y, x)
DNe(x, y) == IsNaN(x) \/ IsNaN(y) \/ x # y
DEq(x, y) == ~DNe(x, y)

(***************************************************************************)
(* Eigen::VectorXd / ArrayXd are sequences of doubles, Eigen::MatrixXd a   *)
(* record of its dimensions and its rows.                                  *)
(***************************************************************************)
Const(n, x) == [i \in 1..n |-> x]
Zeros(n) == Const(n, D(0))
\* v.segment(start, n), start counted from 0
Segment(v, start, n) == [i \in 1..n |-> v[start + i]]
VAdd(u, v) == [i \in 1..Len(u) |-> DAdd(u[i], v[i])]
VSub(u, v) == [i \in 1..Len(u) |-> DSub(u[i], v[i])]
\* lambda * v for a scalar lambda
VScale(lambda, v) == [i \in 1..Len(v) |-> DMul(lambda, v[i])]
\* the coefficient-wise product of two arrays
VCwise(u, v) == [i \in 1..Len(u) |-> DMul(u[i], v[i])]

RECURSIVE DSum(_)
DSum(v) == IF v = <<>> THEN D(0) ELSE DAdd(Head(v), DSum(Tail(v)))

Matrix(r, c, rws) == [rows |-> r, cols |-> c, at |-> rws]
\* lambda * v for a matrix lambda with lambda.cols = v.size()
MatVec(lambda, v) ==
  [i \in 1..lambda.rows |-> DSum(VCwise(lambda.at[i], v))]
\* v.squaredNorm(); v.norm() is its square root
SquaredNorm(v) == DSum(VCwise(v, v))
\* v.norm()
VNorm(v) == DSqrt(SquaredNorm(v))
\* v / x for a scalar x
VDiv(v, x) == [i \in 1..Len(v) |-> DDiv(v[i], x)]
\* Eigen::VectorXd::Map(data.data(), data.size()) of a std::vector<double>
VectorMap(data) == [i \in 1..Len(data) |-> data[i]]

(***************************************************************************)
(* State                                                                   *)
(***************************************************************************)
\* State::State(const std::string& name)
State_ctor(name) ==
  [kind |-> "State", type |-> "STATE", name |-> name, empty |-> TRUE]

\* State::State(const StateType& type, const std::string& name): the
\* protected constructor the derived classes delegate to.
State_ctor_type(kind, type, name) ==
  [kind |-> kind, type |-> type, name |-> name, empty |-> TRUE]

\* The name of an object constructed without a name.
DefaultName == ""

State_set_name(this, name) == [this EXCEPT !.name = name]

State_set_empty(this, empty) == [this EXCEPT !.empty = empty]

\* State::set_filled(): empty_ = false
State_set_filled(this) == [this EXCEPT !.empty = FALSE]

\* State::initialize()
State_initialize(this) == [this EXCEPT !.empty = TRUE]

\* State::is_compatible(const State&): equal type tags.
State_is_compatible(this, state) ==
  Returned(this, this.type = state.type)

\* State::is_incompatible(const State&)
State_is_incompatible(this, state) ==
  Returned(this, FALSE)

(***************************************************************************)
(* The timestamp of a State.  A State whose timestamp matters carries it   *)
(* in the field timestamp, an instant of the steady clock in clock ticks;  *)
(* the member functions above leave that field alone.  The functions that  *)
(* read the clock take the instant t it returns.                           *)
(***************************************************************************)
TickNanos == 100000000          \* the nanoseconds of one clock tick
NanosPerSecond == 1000000000    \* the 1e9 of get_age

Stamped(state, t) ==
  [f \in DOMAIN state \cup {"timestamp"} |->
     IF f = "timestamp" THEN t ELSE state[f]]

\* State::State() and State::State(const std::string& name):
\* timestamp_(std::chrono::steady_clock::now())
State_ctor_default_at(t) == Stamped(State_ctor(DefaultName), t)
State_ctor_at(name, t) == Stamped(State_ctor(name), t)

\* A mutant of the copy constructor: the timestamp of the source is copied.
State_copy_ctor_timestamp(state, t) ==
  [kind |-> "State", type |-> state.type, name |-> state.name,
   empty |-> state.empty, timestamp |-> state.timestamp]

\* State::State(const State& state): type, name and empty flag of the
\* source, the timestamp read from the clock
State_copy_ctor(state, t) ==
  [kind |-> "State", type |-> state.type, name |-> state.name,
   empty |-> state.empty, timestamp |-> t]

\* swap(State& state1, State& state2): the two objects exchange their four
\* members.  The value is the pair <<state1, state2>> after the call.
swap(state1, state2) == <<state2, state1>>

\* State& State::operator=(const State& state): State tmp(state);
\* swap(*this, tmp); return *this;
State_assign(this, state, t) ==
  LET tmp == State_copy_ctor(state, t) IN swap(this, tmp)[1]

\* State::reset_timestamp()
State_reset_timestamp(this, t) == [this EXCEPT !.timestamp = t]

\* State::get_age(): the nanoseconds since the timestamp, as a double,
\* divided by 1e9
State_get_age(this, t) ==
  DDiv(Round(D((t - this.timestamp) * TickNanos)), Round(D(NanosPerSecond)))

\* State::is_deprecated(double time_delay): get_age() >= time_delay
State_is_deprecated(this, time_delay, t) ==
  LET age == State_get_age(this, t)
  IN DGt(age, time_delay) \/ DEq(age, time_delay)

(***************************************************************************)
(* SpatialState                                                            *)
(***************************************************************************)
SpatialKinds ==
  {"SpatialState", "CartesianState", "CartesianPose", "CartesianAcceleration"}
IsSpatial(o) == o.kind \in SpatialKinds

\* SpatialState::SpatialState(name, reference_frame)
SpatialState_ctor(name, reference_frame) ==
  [kind |-> "SpatialState", type |-> "SPATIAL_STATE", name |-> name,
   empty |-> TRUE, reference_frame |-> reference_frame]

\* SpatialState::SpatialState()
SpatialState_ctor_default ==
  [kind |-> "SpatialState", type |-> "SPATIAL_STATE", name |-> DefaultName,
   empty |-> TRUE, reference_frame |-> "world"]

SpatialState_set_reference_frame(this, reference_frame) ==
  [this EXCEPT !.reference_frame = reference_frame]

\* Mutants of SpatialState::is_incompatible: one of the three conditions
\* left out, or the bad_cast left uncaught.
SpatialState_is_incompatible_noparent(this, state) ==
  IF ~IsSpatial(state) THEN Threw("InvalidCast", this)
  ELSE Returned(this, /\ this.reference_frame # state.name
                      /\ this.reference_frame # state.reference_frame)

SpatialState_is_incompatible_nochild(this, state) ==
  IF ~IsSpatial(state) THEN Threw("InvalidCast", this)
  ELSE Returned(this, /\ this.name # state.reference_frame
                      /\ this.reference_frame # state.reference_frame)

SpatialState_is_incompatible_nosibling(this, state) ==
  IF ~IsSpatial(state) THEN Threw("InvalidCast", this)
  ELSE Returned(this, /\ this.name # state.reference_frame
                      /\ this.reference_frame # state.name)

SpatialState_is_incompatible_parentonly(this, state) ==
  IF ~IsSpatial(state) THEN Threw("InvalidCast", this)
  ELSE Returned(this, this.name # state.reference_frame)

SpatialState_is_incompatible_nocatch(this, state) ==
  IF ~IsSpatial(state) THEN Threw("bad_cast", this)
  ELSE Returned(this, /\ this.name # state.reference_frame
                      /\ this.reference_frame # state.name
                      /\ this.reference_frame # state.reference_frame)

\* SpatialState::is_incompatible(const State& state): the dynamic_cast to
\* const SpatialState& throws std::bad_cast for any other dynamic class,
\* which the handler turns into InvalidCastException.
SpatialState_is_incompatible(this, state) ==
  IF ~IsSpatial(state) THEN Threw("InvalidCast", this)
  ELSE Returned(this, /\ this.name # state.reference_frame
                      /\ this.reference_frame # state.name
                      /\ this.reference_frame # state.reference_frame)

\* The virtual call obj.is_incompatible(state).
is_incompatible(this, state) ==
  IF IsSpatial(this) THEN SpatialState_is_incompatible(this, state)
  ELSE State_is_incompatible(this, state)

(***************************************************************************)
(* JointState (space/joint): names_ and the four Eigen vectors.  Joint     *)
(* indices are those of the C++ code, counted from 0.                      *)
(***************************************************************************)
Fields == {"positions", "velocities", "accelerations", "torques"}
JointStateVariable ==
  {"POSITIONS", "VELOCITIES", "ACCELERATIONS", "TORQUES", "ALL"}

IsJointState(o) == o.kind = "JointState"

\* A mutant of assert_index_in_range: an index equal to the size is thrown
\* out as well.
assert_index_in_range_strict(joint_index, size) == joint_index >= size

\* assert_index_in_range: TRUE when the assertion throws JointNotFound
assert_index_in_range(joint_index, size) == joint_index > size

JointState_get_size(this) == Len(this.names)

JointState_set_zero(this) ==
  [this EXCEPT !.positions = Zeros(Len(this.positions)),
               !.velocities = Zeros(Len(this.velocities)),
               !.accelerations = Zeros(Len(this.accelerations)),
               !.torques = Zeros(Len(this.torques))]

\* JointState::initialize(): State::initialize(), resize to names_.size(),
\* set_zero() (the resized vectors hold no value before set_zero).
JointState_initialize(this) ==
  LET size == Len(this.names)
      resized == [State_initialize(this) EXCEPT
                    !.positions = Zeros(size), !.velocities = Zeros(size),
                    !.accelerations = Zeros(size), !.torques = Zeros(size)]
  IN JointState_set_zero(resized)

\* The members before the constructor body runs: State(JOINT_STATE, name),
\* names_ as initialised, the four vectors default-constructed (size 0).
JointState_members(robot_name, names) ==
  [kind |-> "JointState", type |-> "JOINT_STATE", name |-> robot_name,
   empty |-> TRUE, names |-> names, positions |-> <<>>, velocities |-> <<>>,
   accelerations |-> <<>>, torques |-> <<>>]

DefaultJointNames == <<"joint0", "joint1", "joint2", "joint3">>

\* JointState::set_names(unsigned int nb_joints)
JointState_set_names_nb(this, nb_joints) ==
  IF JointState_get_size(this) # nb_joints
    THEN Threw("IncompatibleSize", this)
    ELSE Returned([this EXCEPT
                     !.names = [i \in 1..nb_joints |-> DefaultJointNames[i]]],
                  NoValue)

\* A mutant of set_names: the size check left out.
JointState_set_names_nocheck(this, names) ==
  Returned([this EXCEPT !.names = names], NoValue)

\* JointState::set_names(const std::vector<std::string>& names)
JointState_set_names(this, names) ==
  IF JointState_get_size(this) # Len(names)
    THEN Threw("IncompatibleSize", this)
    ELSE Returned([this EXCEPT !.names = names], NoValue)

\* JointState::JointState()
JointState_ctor_default ==
  JointState_initialize(JointState_members(DefaultName, <<>>))

\* JointState::JointState(robot_name, nb_joints): names_(nb_joints) holds
\* nb_joints empty strings, so set_names(nb_joints) passes its size check.
JointState_ctor_nb(robot_name, nb_joints) ==
  JointState_initialize(
    JointState_set_names_nb(
      JointState_members(robot_name, Const(nb_joints, "")), nb_joints).state)

\* JointState::JointState(robot_name, joint_names)
JointState_ctor_names(robot_name, joint_names) ==
  JointState_initialize(JointState_members(robot_name, joint_names))

\* A mutant of get_joint_index: the last match instead of the first.
JointState_get_joint_index_last(this, joint_name) ==
  LET hits == {i \in 1..Len(this.names) : this.names[i] = joint_name} IN
    IF hits = {} THEN Threw("JointNotFound", this)
    ELSE Returned(this, (CHOOSE i \in hits : \A k \in hits : i >= k) - 1)

\* JointState::get_joint_index: std::find, the first match
JointState_get_joint_index(this, joint_name) ==
  LET hits == {i \in 1..Len(this.names) : this.names[i] = joint_name} IN
    IF hits = {} THEN Threw("JointNotFound", this)
    ELSE Returned(this, (CHOOSE i \in hits : \A k \in hits : i <= k) - 1)

\* ---- getters ----
\* get_positions() and its three siblings
GetVector(this, f) == Returned(this, this[f])

\* get_position(const std::string&) and its three siblings
GetByName(this, f, joint_name) ==
  LET idx == JointState_get_joint_index(this, joint_name) IN
    IF idx.outcome # "ok" THEN Threw(idx.outcome, this)
    ELSE Returned(this, this[f][idx.value + 1])

\* get_position(unsigned int) and its three siblings.  An index equal to the
\* size passes assert_index_in_range and reads one past the end of the
\* vector: the outcome "UB_read" stands for that read.
GetByIndex(this, f, joint_index) ==
  IF assert_index_in_range(joint_index, JointState_get_size(this))
    THEN Threw("JointNotFound", this)
  ELSE IF joint_index >= Len(this[f]) THEN Threw("UB_read", this)
  ELSE Returned(this, this[f][joint_index + 1])

JointState_get_positions(this) == GetVector(this, "positions")
JointState_get_position_name(this, n) == GetByName(this, "positions", n)
JointState_get_position_index(this, i) == GetByIndex(this, "positions", i)
JointState_get_velocities(this) == GetVector(this, "velocities")
JointState_get_velocity_name(this, n) == GetByName(this, "velocities", n)
JointState_get_velocity_index(this, i) == GetByIndex(this, "velocities", i)
JointState_get_accelerations(this) == GetVector(this, "accelerations")
JointState_get_acceleration_name(this, n) ==
  GetByName(this, "accelerations", n)
JointState_get_acceleration_index(this, i) ==
  GetByIndex(this, "accelerations", i)
JointState_get_torques(this) == GetVector(this, "torques")
JointState_get_torque_name(this, n) == GetByName(this, "torques", n)
JointState_get_torque_index(this, i) == GetByIndex(this, "torques", i)

\* get_all_state_variables(): positions, velocities, accelerations, torques
JointState_get_all_state_variables(this) ==
  this.positions \o this.velocities \o this.accelerations \o this.torques

\* get_state_variable(state_variable_type)
JointState_get_state_variable(this, state_variable_type) ==
  CASE state_variable_type = "POSITIONS" ->
         JointState_get_positions(this).value
    [] state_variable_type = "VELOCITIES" ->
         JointState_get_velocities(this).value
    [] state_variable_type = "ACCELERATIONS" ->
         JointState_get_accelerations(this).value
    [] state_variable_type = "TORQUES" ->
         JointState_get_torques(this).value
    [] state_variable_type = "ALL" ->
         JointState_get_all_state_variables(this)

\* ---- setters ----
\* set_state_variable(Eigen::VectorXd& state_variable, new_value): the size
\* check, set_filled(), the assignment
SetField(this, f, new_value) ==
  IF Len(new_value) # JointState_get_size(this)
    THEN Threw("IncompatibleSize", this)
    ELSE Returned([State_set_filled(this) EXCEPT ![f] = new_value], NoValue)

JointState_set_positions(this, v) == SetField(this, "positions", v)
JointState_set_velocities(this, v) == SetField(this, "velocities", v)
JointState_set_accelerations(this, v) == SetField(this, "accelerations", v)
JointState_set_torques(this, v) == SetField(this, "torques", v)

\* set_position(double, const std::string&) and its siblings: set_filled()
\* runs before the lookup that may throw.
SetByName(this, f, x, joint_name) ==
  LET filled == State_set_filled(this)
      idx == JointState_get_joint_index(filled, joint_name)
  IN IF idx.outcome # "ok" THEN Threw(idx.outcome, filled)
     ELSE Returned([filled EXCEPT ![f][idx.value + 1] = x], NoValue)

\* set_position(double, unsigned int) and its siblings.  An index equal to
\* the size passes the assertion and writes one past the end of the vector:
\* the outcome "UB_write" stands for that write.
SetByIndex(this, f, x, joint_index) ==
  IF assert_index_in_range(joint_index, JointState_get_size(this))
    THEN Threw("JointNotFound", this)
  ELSE IF joint_index >= Len(this[f])
    THEN Threw("UB_write", State_set_filled(this))
  ELSE Returned([State_set_filled(this) EXCEPT ![f][joint_index + 1] = x],
                NoValue)

JointState_set_position_name(this, x, n) == SetByName(this, "positions", x, n)
JointState_set_position_index(this, x, i) ==
  SetByIndex(this, "positions", x, i)
JointState_set_velocity_name(this, x, n) == SetByName(this, "velocities", x, n)
JointState_set_velocity_index(this, x, i) ==
  SetByIndex(this, "velocities", x, i)
JointState_set_acceleration_name(this, x, n) ==
  SetByName(this, "accelerations", x, n)
JointState_set_acceleration_index(this, x, i) ==
  SetByIndex(this, "accelerations", x, i)
JointState_set_torque_name(this, x, n) == SetByName(this, "torques", x, n)
JointState_set_torque_index(this, x, i) == SetByIndex(this, "torques", x, i)

\* set_all_state_variables(new_values): the four segments of a vector of
\* size 4 * get_size()
JointState_set_all_state_variables(this, new_values) ==
  LET size == JointState_get_size(this) IN
    IF Len(new_values) # 4 * size THEN Threw("IncompatibleSize", this)
    ELSE Returned(
           [State_set_filled(this) EXCEPT
              !.positions = Segment(new_values, 0, size),
              !.velocities = Segment(new_values, size, size),
              !.accelerations = Segment(new_values, 2 * size, size),
              !.torques = Segment(new_values, 3 * size, size)],
           NoValue)

\* set_state_variable(new_value, state_variable_type)
JointState_set_state_variable(this, new_value, state_variable_type) ==
  CASE state_variable_type = "POSITIONS" ->
         JointState_set_positions(this, new_value)
    [] state_variable_type = "VELOCITIES" ->
         JointState_set_velocities(this, new_value)
    [] state_variable_type = "ACCELERATIONS" ->
         JointState_set_accelerations(this, new_value)
    [] state_variable_type = "TORQUES" ->
         JointState_set_torques(this, new_value)
    [] state_variable_type = "ALL" ->
         JointState_set_all_state_variables(this, new_value)

\* JointState::set_data
JointState_set_data(this, data) ==
  JointState_set_all_state_variables(this, data)

\* JointState::Zero (both overloads build on the constructors)
JointState_Zero_nb(robot_name, nb_joints) ==
  State_set_filled(JointState_ctor_nb(robot_name, nb_joints))
JointState_Zero_names(robot_name, joint_names) ==
  State_set_filled(JointState_ctor_names(robot_name, joint_names))

\* JointState::Random; random is the value of Eigen::VectorXd::Random
JointState_Random_nb(robot_name, nb_joints, random) ==
  JointState_set_state_variable(
    JointState_ctor_nb(robot_name, nb_joints), random, "ALL").state
JointState_Random_names(robot_name, joint_names, random) ==
  JointState_set_state_variable(
    JointState_ctor_names(robot_name, joint_names), random, "ALL").state

\* JointState::copy(), the copy constructor
JointState_copy(this) == this

\* ---- compatibility ----
\* A mutant of JointState::is_compatible: the names compared as sets.
JointState_is_compatible_sets(this, state) ==
  IF ~State_is_compatible(this, state).value THEN Returned(this, FALSE)
  ELSE IF ~IsJointState(state) THEN Threw("bad_cast", this)
  ELSE Returned(this, {this.names[i] : i \in 1..Len(this.names)}
                        = {state.names[i] : i \in 1..Len(state.names)})

\* JointState::is_compatible(const State& state): the dynamic_cast to const
\* JointState& is evaluated only when State::is_compatible held, and throws
\* std::bad_cast for any other dynamic class.
JointState_is_compatible(this, state) ==
  IF ~State_is_compatible(this, state).value THEN Returned(this, FALSE)
  ELSE IF ~IsJointState(state) THEN Threw("bad_cast", this)
  ELSE IF Len(this.names) # Len(state.names) THEN Returned(this, FALSE)
  ELSE Returned(this, \A i \in 1..Len(this.names) :
                         this.names[i] = state.names[i])

\* The virtual call obj.is_compatible(state).
is_compatible(this, state) ==
  IF IsJointState(this) THEN JointState_is_compatible(this, state)
  ELSE State_is_compatible(this, state)

\* ---- clamping ----
\* One turn of the loop of clamp_state_variable; abs is the double overload.
ClampElement(x, max_absolute_value, noise_ratio) ==
  IF DNe(noise_ratio, D(0))
     /\ DLt(DAbs(x), DMul(noise_ratio, max_absolute_value))
    THEN D(0)
  ELSE IF DGt(DAbs(x), max_absolute_value)
    THEN DMul(x, DDiv(max_absolute_value, DAbs(x)))
  ELSE x

\* clamp_state_variable(max_absolute_value_array, type, noise_ratio_array)
JointState_clamp_state_variable_array(this, max_absolute_value_array, state_variable_type, noise_ratio_array) ==
  LET state_variable == JointState_get_state_variable(this, state_variable_type)
      expected_size == Len(state_variable)
  IN IF Len(max_absolute_value_array) # expected_size
       THEN Threw("IncompatibleSize", this)
     ELSE IF Len(noise_ratio_array) # expected_size
       THEN Threw("IncompatibleSize", this)
     ELSE JointState_set_state_variable(
            this,
            [i \in 1..expected_size |->
               ClampElement(state_variable[i], max_absolute_value_array[i],
                            noise_ratio_array[i])],
            state_variable_type)

\* clamp_state_variable(double max_absolute_value, type, double noise_ratio)
JointState_clamp_state_variable(this, max_absolute_value, state_variable_type, noise_ratio) ==
  LET expected_size ==
        Len(JointState_get_state_variable(this, state_variable_type))
  IN JointState_clamp_state_variable_array(
       this, VScale(max_absolute_value, Const(expected_size, D(1))),
       state_variable_type, VScale(noise_ratio, Const(expected_size, D(1))))

\* ---- distance ----
\* The distance of one field: (this->get_f() - state.get_f()).norm()
FieldDist(this, state, f) == VNorm(VSub(this[f], state[f]))

\* A mutant of dist: the distance of the positions is added whatever the
\* selector is.
JointState_dist_positions_always(this, state, state_variable_type) ==
  IF this.empty THEN Threw("EmptyState", this)
  ELSE IF state.empty THEN Threw("EmptyState", this)
  ELSE LET c == JointState_is_compatible(this, state) IN
    IF c.outcome # "ok" THEN Threw(c.outcome, this)
    ELSE IF ~c.value THEN Threw("IncompatibleStates", this)
    ELSE LET all == state_variable_type = "ALL"
             r1 == DAdd(D(0), FieldDist(this, state, "positions"))
             r2 == IF state_variable_type = "VELOCITIES" \/ all
                     THEN DAdd(r1, FieldDist(this, state, "velocities"))
                     ELSE r1
             r3 == IF state_variable_type = "ACCELERATIONS" \/ all
                     THEN DAdd(r2, FieldDist(this, state, "accelerations"))
                     ELSE r2
             r4 == IF state_variable_type = "TORQUES" \/ all
                     THEN DAdd(r3, FieldDist(this, state, "torques"))
                     ELSE r3
         IN Returned(this, r4)

\* JointState::dist(const JointState& state, type) const: result starts at 0
\* and the distance of each selected field is added to it in turn.
JointState_dist(this, state, state_variable_type) ==
  IF this.empty THEN Threw("EmptyState", this)
  ELSE IF state.empty THEN Threw("EmptyState", this)
  ELSE LET c == JointState_is_compatible(this, state) IN
    IF c.outcome # "ok" THEN Threw(c.outcome, this)
    ELSE IF ~c.value THEN Threw("IncompatibleStates", this)
    ELSE LET all == state_variable_type = "ALL"
             r1 == IF state_variable_type = "POSITIONS" \/ all
                     THEN DAdd(D(0), FieldDist(this, state, "positions"))
                     ELSE D(0)
             r2 == IF state_variable_type = "VELOCITIES" \/ all
                     THEN DAdd(r1, FieldDist(this, state, "velocities"))
                     ELSE r1
             r3 == IF state_variable_type = "ACCELERATIONS" \/ all
                     THEN DAdd(r2, FieldDist(this, state, "accelerations"))
                     ELSE r2
             r4 == IF state_variable_type = "TORQUES" \/ all
                     THEN DAdd(r3, FieldDist(this, state, "torques"))
                     ELSE r3
         IN Returned(this, r4)

\* dist(s1, s2, type)
dist(s1, s2, state_variable_type) == JointState_dist(s1, s2, state_variable_type)

\* ---- scaling ----
\* multiply_state_variable(const Eigen::ArrayXd& lambda, type)
JointState_multiply_state_variable_array(this, lambda, state_variable_type) ==
  LET state_variable == JointState_get_state_variable(this, state_variable_type)
      expected_size == Len(state_variable)
  IN IF Len(lambda) # expected_size THEN Threw("IncompatibleSize", this)
     ELSE JointState_set_state_variable(
            this, VCwise(lambda, state_variable), state_variable_type)

\* multiply_state_variable(const Eigen::MatrixXd& lambda, type)
JointState_multiply_state_variable_matrix(this, lambda, state_variable_type) ==
  LET state_variable == JointState_get_state_variable(this, state_variable_type)
      expected_size == Len(state_variable)
  IN IF lambda.rows # expected_size \/ lambda.cols # expected_size
       THEN Threw("IncompatibleSize", this)
     ELSE JointState_set_state_variable(
            this,
            MatVec(lambda,
                   JointState_get_state_variable(this, state_variable_type)),
            state_variable_type)

\* The JointState of robot/JointState.cpp, the earlier version of the class
\* with the same members: multiply_state_variable(const Eigen::MatrixXd&,
\* type) checks lambda against the size of the selected variable and then
\* multiplies it with all the state variables.  A product whose sizes do not
\* match is undefined behaviour (an Eigen assertion in a debug build).
robot_JointState_multiply_state_variable_matrix(this, lambda, state_variable_type) ==
  LET state_variable == JointState_get_state_variable(this, state_variable_type)
      expected_size == Len(state_variable)
      all == JointState_get_all_state_variables(this)
  IN IF lambda.rows # expected_size \/ lambda.cols # expected_size
       THEN Threw("IncompatibleSize", this)
     ELSE IF lambda.cols # Len(all)
       THEN [outcome |-> "UB_product", state |-> this, value |-> NoValue]
     ELSE JointState_set_all_state_variables(this, MatVec(lambda, all))

\* A mutant of operator*=(double): the empty check left out.
JointState_mul_assign_nocheck(this, lambda) ==
  JointState_set_all_state_variables(
    this, VScale(lambda, JointState_get_all_state_variables(this)))

\* JointState::operator*=(double lambda)
JointState_mul_assign(this, lambda) ==
  IF this.empty THEN Threw("EmptyState", this)
  ELSE JointState_set_all_state_variables(
         this, VScale(lambda, JointState_get_all_state_variables(this)))

\* An operator that works on a copy and returns it: the receiver is left
\* alone, the value is the copy after the compound assignment r.
OnCopy(this, r) ==
  IF r.outcome # "ok" THEN Threw(r.outcome, this)
  ELSE Returned(this, r.state)

\* JointState::operator*(double lambda) const
JointState_mul(this, lambda) ==
  OnCopy(this, JointState_mul_assign(JointState_copy(this), lambda))

\* operator*(double lambda, const JointState& state)
JointState_mul_left(lambda, state) ==
  IF state.empty THEN Threw("EmptyState", state)
  ELSE OnCopy(state, JointState_mul_assign(JointState_copy(state), lambda))

\* JointState::operator*=(const Eigen::MatrixXd& lambda)
JointState_mul_assign_matrix(this, lambda) ==
  JointState_multiply_state_variable_matrix(this, lambda, "ALL")

\* JointState::operator*(const Eigen::MatrixXd&) const and
\* operator*(const Eigen::MatrixXd&, const JointState&)
JointState_mul_matrix(this, lambda) ==
  OnCopy(this, JointState_mul_assign_matrix(JointState_copy(this), lambda))

\* JointState::operator*=(const Eigen::ArrayXd& lambda)
JointState_mul_assign_array(this, lambda) ==
  JointState_multiply_state_variable_array(this, lambda, "ALL")

\* JointState::operator*(const Eigen::ArrayXd&) const and
\* operator*(const Eigen::ArrayXd&, const JointState&)
JointState_mul_array(this, lambda) ==
  OnCopy(this, JointState_mul_assign_array(JointState_copy(this), lambda))

\* JointState::operator/=(double lambda)
JointState_div_assign(this, lambda) ==
  JointState_mul_assign(this, DInv(lambda))

\* JointState::operator/(double lambda) const
JointState_div(this, lambda) ==
  OnCopy(this, JointState_div_assign(JointState_copy(this), lambda))

\* ---- addition and subtraction ----
\* Mutants of operator+=: the compatibility check made before the empty
\* checks, and compatibility taken as equality of the name sets.
JointState_add_assign_compatfirst(this, state) ==
  LET c == JointState_is_compatible(this, state) IN
    IF c.outcome # "ok" THEN Threw(c.outcome, this)
    ELSE IF ~c.value THEN Threw("IncompatibleStates", this)
    ELSE IF this.empty THEN Threw("EmptyState", this)
    ELSE IF state.empty THEN Threw("EmptyState", this)
    ELSE JointState_set_all_state_variables(
           this, VAdd(JointState_get_all_state_variables(this),
                      JointState_get_all_state_variables(state)))

\* JointState::operator+=(const JointState& state)
JointState_add_assign(this, state) ==
  IF this.empty THEN Threw("EmptyState", this)
  ELSE IF state.empty THEN Threw("EmptyState", this)
  ELSE LET c == JointState_is_compatible(this, state) IN
    IF c.outcome # "ok" THEN Threw(c.outcome, this)
    ELSE IF ~c.value THEN Threw("IncompatibleStates", this)
    ELSE JointState_set_all_state_variables(
           this, VAdd(JointState_get_all_state_variables(this),
                      JointState_get_all_state_variables(state)))

\* JointState::operator+(const JointState& state) const
JointState_add(this, state) ==
  OnCopy(this, JointState_add_assign(JointState_copy(this), state))

\* A mutant of operator-=: the operands of the subtraction swapped.
JointState_sub_assign_swapped(this, state) ==
  IF this.empty THEN Threw("EmptyState", this)
  ELSE IF state.empty THEN Threw("EmptyState", this)
  ELSE LET c == JointState_is_compatible(this, state) IN
    IF c.outcome # "ok" THEN Threw(c.outcome, this)
    ELSE IF ~c.value THEN Threw("IncompatibleStates", this)
    ELSE JointState_set_all_state_variables(
           this, VSub(JointState_get_all_state_variables(state),
                      JointState_get_all_state_variables(this)))

\* A mutant of operator-=: the compatibility check left out.
JointState_sub_assign_nocompat(this, state) ==
  IF this.empty THEN Threw("EmptyState", this)
  ELSE IF state.empty THEN Threw("EmptyState", this)
  ELSE IF Len(this.names) # Len(state.names)
    THEN Threw("IncompatibleStates", this)
  ELSE JointState_set_all_state_variables(
         this, VSub(JointState_get_all_state_variables(this),
                    JointState_get_all_state_variables(state)))

\* JointState::operator-=(const JointState& state)
JointState_sub_assign(this, state) ==
  IF this.empty THEN Threw("EmptyState", this)
  ELSE IF state.empty THEN Threw("EmptyState", this)
  ELSE LET c == JointState_is_compatible(this, state) IN
    IF c.outcome # "ok" THEN Threw(c.outcome, this)
    ELSE IF ~c.value THEN Threw("IncompatibleStates", this)
    ELSE JointState_set_all_state_variables(
           this, VSub(JointState_get_all_state_variables(this),
                      JointState_get_all_state_variables(state)))

\* JointState::operator-(const JointState& state) const
JointState_sub(this, state) ==
  OnCopy(this, JointState_sub_assign(JointState_copy(this), state))

\* clamp_state_variable(max, type, noise_ratio) called twice in a row with
\* the same arguments.
ClampTwice(this, max_absolute_value, state_variable_type, noise_ratio) ==
  LET once == JointState_clamp_state_variable(
                this, max_absolute_value, state_variable_type, noise_ratio)
  IN IF once.outcome # "ok" THEN once
     ELSE JointState_clamp_state_variable(
            once.state, max_absolute_value, state_variable_type, noise_ratio)

\* The expression (a + b) - b: operator+ builds a temporary, operator- is
\* called on the temporary.
AddThenSub(a, b) ==
  LET sum == JointState_add(a, b) IN
    IF sum.outcome # "ok" THEN Threw(sum.outcome, a)
    ELSE LET diff == JointState_sub(sum.value, b) IN
      IF diff.outcome # "ok" THEN Threw(diff.outcome, a)
      ELSE Returned(a, diff.value)

(***************************************************************************)
(* CartesianState and two of its projections, CartesianPose and            *)
(* CartesianAcceleration.  A Cartesian object is a SpatialState with seven *)
(* 3-vectors and the orientation, a quaternion kept as <<w, x, y, z>>.     *)
(***************************************************************************)
CartesianVectors ==
  {"position", "linear_velocity", "angular_velocity", "linear_acceleration",
   "angular_acceleration", "force", "torque"}
CartesianFields == CartesianVectors \cup {"orientation"}
IdentityQuaternion == <<D(1), D(0), D(0), D(0)>>

\* CartesianState::set_zero(): zero vectors and the identity quaternion
CartesianState_set_zero(this) ==
  [this EXCEPT !.position = Zeros(3), !.orientation = IdentityQuaternion,
               !.linear_velocity = Zeros(3), !.angular_velocity = Zeros(3),
               !.linear_acceleration = Zeros(3),
               !.angular_acceleration = Zeros(3),
               !.force = Zeros(3), !.torque = Zeros(3)]

\* CartesianState::CartesianState(name, reference): an empty state of type
\* CARTESIAN_STATE with zero vectors and the identity quaternion
CartesianState_ctor(name, reference) ==
  [kind |-> "CartesianState", type |-> "CARTESIAN_STATE", name |-> name,
   empty |-> TRUE, reference_frame |-> reference,
   position |-> Zeros(3), orientation |-> IdentityQuaternion,
   linear_velocity |-> Zeros(3), angular_velocity |-> Zeros(3),
   linear_acceleration |-> Zeros(3), angular_acceleration |-> Zeros(3),
   force |-> Zeros(3), torque |-> Zeros(3)]

\* CartesianState::CartesianState(): no name, reference frame "world"
CartesianState_ctor_default == CartesianState_ctor(DefaultName, "world")

\* State::set_type
State_set_type(this, type) == [this EXCEPT !.type = type]

\* The dynamic class of the object a derived-class constructor builds on
\* the CartesianState subobject.
Derived(this, kind) == [this EXCEPT !.kind = kind]

\* q.normalized() of a quaternion
Normalized(q) == VDiv(q, VNorm(q))

\* CartesianState::set_position / set_orientation and the setters of the
\* other 3-vectors: the field is written and the state marked filled; the
\* orientation is normalised.
CartesianState_set_vector(this, f, v) ==
  [State_set_filled(this) EXCEPT ![f] = v]
CartesianState_set_position(this, position) ==
  CartesianState_set_vector(this, "position", position)
CartesianState_set_orientation(this, orientation) ==
  [State_set_filled(this) EXCEPT !.orientation = Normalized(orientation)]
CartesianState_set_linear_acceleration(this, v) ==
  CartesianState_set_vector(this, "linear_acceleration", v)
CartesianState_set_angular_acceleration(this, v) ==
  CartesianState_set_vector(this, "angular_acceleration", v)

\* CartesianState::get_pose(): position, then orientation as w, x, y, z
CartesianState_get_pose(this) == this.position \o this.orientation
\* CartesianState::get_acceleration(): linear, then angular
CartesianState_get_acceleration(this) ==
  this.linear_acceleration \o this.angular_acceleration

\* CartesianState::set_pose(const Eigen::VectorXd& pose)
CartesianState_set_pose(this, pose) ==
  IF Len(pose) # 7 THEN Threw("IncompatibleSize", this)
  ELSE Returned(
         CartesianState_set_orientation(
           CartesianState_set_position(this, Segment(pose, 0, 3)),
           Segment(pose, 3, 4)),
         NoValue)

\* CartesianState::set_acceleration(const Eigen::Matrix<double, 6, 1>&)
CartesianState_set_acceleration(this, acceleration) ==
  CartesianState_set_angular_acceleration(
    CartesianState_set_linear_acceleration(this, Segment(acceleration, 0, 3)),
    Segment(acceleration, 3, 3))

\* CartesianState::Identity(name, reference): the identity, marked filled
CartesianState_Identity(name, reference) ==
  State_set_filled(CartesianState_ctor(name, reference))

\* ---- CartesianPose ----
\* CartesianPose::CartesianPose()
CartesianPose_ctor_default ==
  State_set_type(Derived(CartesianState_ctor_default, "CartesianPose"),
                 "CARTESIAN_POSE")

\* CartesianPose::CartesianPose(name, reference)
CartesianPose_ctor(name, reference) ==
  State_set_type(Derived(CartesianState_ctor(name, reference),
                         "CartesianPose"),
                 "CARTESIAN_POSE")

\* CartesianPose::CartesianPose(name, position, reference)
CartesianPose_ctor_position(name, position, reference) ==
  CartesianState_set_position(CartesianPose_ctor(name, reference), position)

\* CartesianPose::CartesianPose(name, position, orientation, reference)
CartesianPose_ctor_pose(name, position, orientation, reference) ==
  CartesianState_set_orientation(
    CartesianState_set_position(CartesianPose_ctor(name, reference),
                                position),
    orientation)

\* A mutant of that constructor: the empty flag is not restored after the
\* pose was written.
CartesianPose_ctor_state_filled(state) ==
  LET copied == State_set_type(Derived(state, "CartesianPose"),
                               "CARTESIAN_POSE")
  IN CartesianState_set_pose(CartesianState_set_zero(copied),
                             CartesianState_get_pose(state)).state

\* CartesianPose::CartesianPose(const CartesianState& state): the copy of
\* the CartesianState subobject, set_type, set_zero, set_pose of the pose of
\* the source, set_empty of the empty flag of the source
CartesianPose_ctor_state(state) ==
  LET copied == State_set_type(Derived(state, "CartesianPose"),
                               "CARTESIAN_POSE")
      posed == CartesianState_set_pose(CartesianState_set_zero(copied),
                                       CartesianState_get_pose(state)).state
  IN State_set_empty(posed, state.empty)

\* CartesianPose::Identity(name, reference)
CartesianPose_Identity(name, reference) ==
  CartesianPose_ctor_state(CartesianState_Identity(name, reference))

\* CartesianPose::data()
CartesianPose_data(this) == Returned(this, CartesianState_get_pose(this))

\* A mutant of CartesianPose::set_data: only a vector that is too short is
\* thrown out.
CartesianPose_set_data_atleast(this, data) ==
  IF Len(data) < 7 THEN Threw("IncompatibleSize", this)
  ELSE Returned(
         CartesianState_set_pose(this, Segment(data, 0, 7)).state, NoValue)

\* CartesianPose::set_data(const Eigen::VectorXd& data)
CartesianPose_set_data(this, data) ==
  IF Len(data) # 7 THEN Threw("IncompatibleSize", this)
  ELSE CartesianState_set_pose(this, data)

\* CartesianPose::set_data(const std::vector<double>& data)
CartesianPose_set_data_std(this, data) ==
  CartesianPose_set_data(this, VectorMap(data))

\* CartesianPose::copy()
CartesianPose_copy(this) == Returned(this, CartesianPose_ctor_state(this))

\* ---- CartesianTwist, as far as the conversions below build one ----
\* CartesianTwist::CartesianTwist(name, reference)
CartesianTwist_ctor(name, reference) ==
  State_set_type(Derived(CartesianState_ctor(name, reference),
                         "CartesianTwist"),
                 "CARTESIAN_TWIST")
CartesianState_set_linear_velocity(this, v) ==
  CartesianState_set_vector(this, "linear_velocity", v)
CartesianState_set_angular_velocity(this, v) ==
  CartesianState_set_vector(this, "angular_velocity", v)

\* double period = dt.count(); period /= 1e9;
Period(dt) == DDiv(Round(D(dt)), Round(D(NanosPerSecond)))

\* q.vec(): the x, y, z of a quaternion
QuaternionVec(q) == Segment(q, 1, 3)
\* What math_tools::log may return for the unit quaternion q: the pure
\* quaternion (0, c * q.vec()) with c = acos(w) / |q.vec()|, which is zero
\* for the identity and a positive double otherwise.
QuaternionLogs(q) ==
  IF q = IdentityQuaternion THEN {Zeros(4)}
  ELSE {<<D(0)>> \o VScale(c, QuaternionVec(q)) : c \in {D(1), Norm(13, 8)}}

\* A mutant of CartesianPose::operator/(nanoseconds): no sanity check.
CartesianPose_div_dt_nocheck(this, dt, log) ==
  Returned(this,
    CartesianState_set_linear_velocity(
      CartesianTwist_ctor(this.name, this.reference_frame),
      VDiv(this.position, Period(dt))))

\* CartesianTwist CartesianPose::operator/(const std::chrono::nanoseconds&
\* dt) const; log is the value of math_tools::log(this->get_orientation())
CartesianPose_div_dt(this, dt, log) ==
  IF this.empty THEN Threw("EmptyState", this)
  ELSE LET twist == CartesianTwist_ctor(this.name, this.reference_frame)
           period == Period(dt)
           linear == CartesianState_set_linear_velocity(
                       twist, VDiv(this.position, period))
           log_q == IF DLt(DSum(VCwise(this.orientation, log)), D(0))
                      THEN VScale(D(-1), log) ELSE log
       IN Returned(this,
            CartesianState_set_angular_velocity(
              linear, VDiv(VScale(D(2), QuaternionVec(log_q)), period)))

\* ---- CartesianAcceleration ----
\* CartesianAcceleration::CartesianAcceleration()
CartesianAcceleration_ctor_default ==
  State_set_type(Derived(CartesianState_ctor_default, "CartesianAcceleration"),
                 "CARTESIAN_ACCELERATION")

\* CartesianAcceleration::CartesianAcceleration(name, reference)
CartesianAcceleration_ctor(name, reference) ==
  State_set_type(Derived(CartesianState_ctor(name, reference),
                         "CartesianAcceleration"),
                 "CARTESIAN_ACCELERATION")

\* CartesianAcceleration(name, linear_acceleration, reference)
CartesianAcceleration_ctor_linear(name, linear_acceleration, reference) ==
  CartesianState_set_linear_acceleration(
    CartesianAcceleration_ctor(name, reference), linear_acceleration)

\* CartesianAcceleration(name, const Eigen::Matrix<double, 6, 1>&, reference)
CartesianAcceleration_ctor_acceleration(name, acceleration, reference) ==
  CartesianState_set_acceleration(
    CartesianAcceleration_ctor(name, reference), acceleration)

\* CartesianAcceleration::CartesianAcceleration(const CartesianState& state)
CartesianAcceleration_ctor_state(state) ==
  LET copied == State_set_type(Derived(state, "CartesianAcceleration"),
                               "CARTESIAN_ACCELERATION")
      set == CartesianState_set_acceleration(
               CartesianState_set_zero(copied),
               CartesianState_get_acceleration(state))
  IN State_set_empty(set, state.empty)

\* CartesianAcceleration::Zero(name, reference)
CartesianAcceleration_Zero(name, reference) ==
  CartesianAcceleration_ctor_state(CartesianState_Identity(name, reference))

\* CartesianAcceleration::data()
CartesianAcceleration_data(this) ==
  Returned(this, CartesianState_get_acceleration(this))

\* CartesianAcceleration::set_data(const Eigen::VectorXd& data)
CartesianAcceleration_set_data(this, data) ==
  IF Len(data) # 6 THEN Threw("IncompatibleSize", this)
  ELSE Returned(CartesianState_set_acceleration(this, data), NoValue)

\* CartesianAcceleration::copy()
CartesianAcceleration_copy(this) ==
  Returned(this, CartesianAcceleration_ctor_state(this))

\* CartesianAcceleration::set_data(const std::vector<double>& data)
CartesianAcceleration_set_data_std(this, data) ==
  CartesianAcceleration_set_data(this, VectorMap(data))

\* CartesianTwist CartesianAcceleration::operator*(const
\* std::chrono::nanoseconds& dt) const
CartesianAcceleration_mul_dt(this, dt) ==
  IF this.empty THEN Threw("EmptyState", this)
  ELSE LET twist == CartesianTwist_ctor(this.name, this.reference_frame)
           period == Period(dt)
           linear == CartesianState_set_linear_velocity(
                       twist, VScale(period, this.linear_acceleration))
       IN Returned(this,
            CartesianState_set_angular_velocity(
              linear, VScale(period, this.angular_acceleration)))

\* CartesianTwist operator*(const std::chrono::nanoseconds& dt, const
\* CartesianAcceleration& acceleration)
CartesianAcceleration_dt_mul(dt, acceleration) ==
  CartesianAcceleration_mul_dt(acceleration, dt)

(***************************************************************************)
(* The spatial program: three objects that are constructed, renamed,       *)
(* re-framed and checked against each other.                               *)
(***************************************************************************)
\* Before anything runs: three default-constructed spatial states, no
\* JointState, no Cartesian object, no call made.
Init ==
  /\ spatial = [i \in ObjIds |-> SpatialState_ctor_default]
  /\ sret = NoCall
  /\ js = NoObject
  /\ ret = NoCall
  /\ cart = NoObject
  /\ cret = NoCall
  /\ timed = [i \in TimedIds |-> NoObject]
  /\ now = 0
  /\ tret = NoCall

NewState(i) ==
  \E name \in Names :
    /\ spatial' = [spatial EXCEPT ![i] = State_ctor(name)]
    /\ sret' = NoCall
    /\ UNCHANGED <<js, ret, cart, cret, timed, now, tret>>

NewSpatialState(i) ==
  \E name \in Names, frame \in Names :
    /\ spatial' = [spatial EXCEPT ![i] = SpatialState_ctor(name, frame)]
    /\ sret' = NoCall
    /\ UNCHANGED <<js, ret, cart, cret, timed, now, tret>>

NewSpatialStateDefault(i) ==
  /\ spatial' = [spatial EXCEPT ![i] = SpatialState_ctor_default]
  /\ sret' = NoCall
  /\ UNCHANGED <<js, ret, cart, cret, timed, now, tret>>

SetName(i) ==
  \E name \in Names :
    /\ spatial' = [spatial EXCEPT ![i] = State_set_name(spatial[i], name)]
    /\ sret' = NoCall
    /\ UNCHANGED <<js, ret, cart, cret, timed, now, tret>>

SetReferenceFrame(i) ==
  \E frame \in Names :
    /\ IsSpatial(spatial[i])
    /\ spatial' = [spatial EXCEPT
                     ![i] = SpatialState_set_reference_frame(spatial[i], frame)]
    /\ sret' = NoCall
    /\ UNCHANGED <<js, ret, cart, cret, timed, now, tret>>

CallIsIncompatible(i, j) ==
  LET r == is_incompatible(spatial[i], spatial[j]) IN
    /\ spatial' = [spatial EXCEPT ![i] = r.state]
    /\ sret' = [op |-> "is_incompatible", this |-> i, other |-> j,
                outcome |-> r.outcome, value |-> r.value]
    /\ UNCHANGED <<js, ret, cart, cret, timed, now, tret>>

SpatialNext ==
  \/ \E i \in ObjIds : NewState(i)
  \/ \E i \in ObjIds : NewSpatialState(i)
  \/ \E i \in ObjIds : NewSpatialStateDefault(i)
  \/ \E i \in ObjIds : SetName(i)
  \/ \E i \in ObjIds : SetReferenceFrame(i)
  \/ \E i \in ObjIds, j \in ObjIds : CallIsIncompatible(i, j)

SpecSpatial == Init /\ [][SpatialNext]_vars


(***************************************************************************)
(* The joint program: a JointState is constructed, one member function is  *)
(* called on it with arguments drawn from the sets below, and the object   *)
(* is destroyed.  ret keeps the call, its arguments, the object as it was  *)
(* before the call (pre) and what the call did.                            *)
(***************************************************************************)
JointNamePool == <<"j1", "j2", "j3", "j4">>
JointNames == {JointNamePool[i] : i \in 1..MaxJoints}
UnknownJoint == "nope"
\* the lists of at most MaxJoints joint names handed to the library: every
\* list of distinct names, in every order, and the lists that repeat one name
NameLists ==
  {l \in UNION {[1..n -> JointNames] : n \in 0..MaxJoints} :
     \/ \A i, k \in 1..Len(l) : l[i] = l[k] => i = k
     \/ \A i \in 1..Len(l) : l[i] = JointNamePool[1]}
JointCounts == 0..MaxJoints
JointIndices == 0..(MaxJoints + 1)

Ramp(n) == [i \in 1..n |-> D(i)]
\* three values of Eigen::VectorXd::Random(n), coefficients within [-1, 1]
RandomVectors(n) ==
  {[i \in 1..n |-> Round(Norm(i, n + 1))],
   [i \in 1..n |-> Round(Norm((IF i % 2 = 0 THEN 1 ELSE -1) * i, n + 1))],
   Const(n, Norm(1, 2))}
\* vectors handed to a setter of a field of size n: right and wrong sizes
InputVectors(n) == {Ramp(n), VScale(D(-2), Ramp(n)), Ramp(n + 1)}
InputValues == {D(3), D(-1)}
Scalars == {D(0), D(2), D(-1), Norm(1, 2)}
Identity(n, x) ==
  Matrix(n, n, [i \in 1..n |-> [k \in 1..n |-> IF i = k THEN x ELSE D(0)]])
UpperOnes(r, c) ==
  Matrix(r, c, [i \in 1..r |-> [k \in 1..c |-> IF i <= k THEN D(1) ELSE D(0)]])
\* gains handed to a product with a state variable of size n
InputArrays(n) == {Const(n, D(2)), Ramp(n), Const(n + 1, D(2))}
InputMatrices(n) ==
  {Identity(n, D(2)), UpperOnes(n, n), Identity(n + 1, D(2)),
   UpperOnes(n, n + 1)}
ClampMaxima == {D(0), Norm(1, 4), D(1), Norm(13, 32)}
NoiseRatios == {D(0), Norm(1, 2), D(2)}
\* (max, noise ratio) arrays handed to the clamp of a variable of size n
ClampArrays(n) ==
  {<<Ramp(n), Const(n, Norm(1, 2))>>, <<Const(n, D(1)), Const(n, D(0))>>,
   <<Ramp(n + 1), Const(n, D(0))>>, <<Ramp(n), Const(n + 1, D(0))>>}
\* what a read one past the end of a vector may return
Garbage == {D(0), D(7), NaN}

\* Every JointState a constructor or factory returns.
Constructed(robot_name) ==
  {JointState_ctor_default}
  \cup {JointState_ctor_nb(robot_name, n) : n \in JointCounts}
  \cup {JointState_ctor_names(robot_name, l) : l \in NameLists}
  \cup {JointState_Zero_nb(robot_name, n) : n \in JointCounts}
  \cup {JointState_Zero_names(robot_name, l) : l \in NameLists}
  \cup UNION {{JointState_Random_nb(robot_name, n, r) :
                 r \in RandomVectors(4 * n)} : n \in JointCounts}
  \cup UNION {{JointState_Random_names(robot_name, l, r) :
                 r \in RandomVectors(4 * Len(l))} : l \in NameLists}

\* The second operand of a binary operator: the JointStates the constructor,
\* Zero and Random build from a list of names or from a joint count.  The
\* argument of a compatibility check is any State.
Operands ==
  {JointState_ctor_names("other", l) : l \in NameLists}
  \cup {JointState_Zero_names("other", l) : l \in NameLists}
  \cup {JointState_Zero_nb("other", n) : n \in JointCounts}
  \cup {JointState_Random_names("other", l, Ramp(4 * Len(l))) :
          l \in NameLists}
\* The second operand of dist: those, and states whose positions were set to
\* infinity.
DistOperands ==
  Operands
    \cup {JointState_set_positions(JointState_Zero_names("other", l),
                                   Const(Len(l), PInf)).state :
           l \in NameLists}
PlainStates == {State_ctor("other")}

\* What the build can make of a call whose outcome is undefined behaviour.
Resolve(r) ==
  CASE r.outcome = "UB_read" ->
         {Threw("abort", r.state)} \cup {Returned(r.state, g) : g \in Garbage}
    [] r.outcome = "UB_write" ->
         {Threw("abort", r.state), Returned(r.state, NoValue)}
    [] r.outcome = "UB_product" ->
         {Threw("abort", r.state), Threw("IncompatibleSize", r.state)}
           \cup {JointState_set_all_state_variables(
                    r.state, Const(4 * JointState_get_size(r.state), g)) :
                  g \in Garbage}
    [] OTHER -> {r}

Built == js # NoObject /\ ret = NoCall

\* The call op(args) on js with the call record r.
Call(op, args, r) ==
  /\ Built
  /\ \E o \in Resolve(r) :
       /\ js' = o.state
       /\ ret' = [op |-> op, args |-> args, pre |-> js,
                  outcome |-> o.outcome, value |-> o.value]
  /\ UNCHANGED <<spatial, sret, cart, cret, timed, now, tret>>

Construct(obj) ==
  /\ js = NoObject
  /\ js' = obj
  /\ ret' = NoCall
  /\ UNCHANGED <<spatial, sret, cart, cret, timed, now, tret>>

NewJointState == Construct(JointState_ctor_default)
NewJointStateNb ==
  \E n \in JointCounts : Construct(JointState_ctor_nb("robot", n))
NewJointStateNames ==
  \E l \in NameLists : Construct(JointState_ctor_names("robot", l))
NewZeroNb == \E n \in JointCounts : Construct(JointState_Zero_nb("robot", n))
NewZeroNames ==
  \E l \in NameLists : Construct(JointState_Zero_names("robot", l))
NewRandomNb ==
  \E n \in JointCounts : \E r \in RandomVectors(4 * n) :
    Construct(JointState_Random_nb("robot", n, r))
NewRandomNames ==
  \E l \in NameLists : \E r \in RandomVectors(4 * Len(l)) :
    Construct(JointState_Random_names("robot", l, r))

Destroy ==
  /\ js # NoObject
  /\ js' = NoObject
  /\ ret' = NoCall
  /\ UNCHANGED <<spatial, sret, cart, cret, timed, now, tret>>

\* The member functions of the four fields, by field.
get_vector(this, f) ==
  CASE f = "positions" -> JointState_get_positions(this)
    [] f = "velocities" -> JointState_get_velocities(this)
    [] f = "accelerations" -> JointState_get_accelerations(this)
    [] f = "torques" -> JointState_get_torques(this)
get_by_name(this, f, n) ==
  CASE f = "positions" -> JointState_get_position_name(this, n)
    [] f = "velocities" -> JointState_get_velocity_name(this, n)
    [] f = "accelerations" -> JointState_get_acceleration_name(this, n)
    [] f = "torques" -> JointState_get_torque_name(this, n)
get_by_index(this, f, i) ==
  CASE f = "positions" -> JointState_get_position_index(this, i)
    [] f = "velocities" -> JointState_get_velocity_index(this, i)
    [] f = "accelerations" -> JointState_get_acceleration_index(this, i)
    [] f = "torques" -> JointState_get_torque_index(this, i)
set_vector(this, f, v) ==
  CASE f = "positions" -> JointState_set_positions(this, v)
    [] f = "velocities" -> JointState_set_velocities(this, v)
    [] f = "accelerations" -> JointState_set_accelerations(this, v)
    [] f = "torques" -> JointState_set_torques(this, v)
set_by_name(this, f, x, n) ==
  CASE f = "positions" -> JointState_set_position_name(this, x, n)
    [] f = "velocities" -> JointState_set_velocity_name(this, x, n)
    [] f = "accelerations" -> JointState_set_acceleration_name(this, x, n)
    [] f = "torques" -> JointState_set_torque_name(this, x, n)
set_by_index(this, f, x, i) ==
  CASE f = "positions" -> JointState_set_position_index(this, x, i)
    [] f = "velocities" -> JointState_set_velocity_index(this, x, i)
    [] f = "accelerations" -> JointState_set_acceleration_index(this, x, i)
    [] f = "torques" -> JointState_set_torque_index(this, x, i)

\* The caller goes on to its next statement.  The fields of the object are
\* still those the call found, or all zero, so that the values a run can
\* build up stay within those of one call on a constructed object.
Proceed ==
  /\ js # NoObject
  /\ ret # NoCall
  /\ \/ \A f \in Fields : js[f] = ret.pre[f]
     \/ \A f \in Fields : js[f] = Zeros(Len(js[f]))
  /\ ret' = NoCall
  /\ UNCHANGED <<js, spatial, sret, cart, cret, timed, now, tret>>

\* ---- one action per member function ----
CallGetJointIndex ==
  \E n \in JointNames \cup {UnknownJoint} :
    Call("get_joint_index", <<n>>, JointState_get_joint_index(js, n))
CallGetVector ==
  \E f \in Fields : Call("get_vector", <<f>>, get_vector(js, f))
CallGetByName ==
  \E f \in Fields, n \in JointNames \cup {UnknownJoint} :
    Call("get_by_name", <<f, n>>, get_by_name(js, f, n))
CallGetByIndex ==
  \E f \in Fields, i \in JointIndices :
    Call("get_by_index", <<f, i>>, get_by_index(js, f, i))
CallSetVector ==
  /\ Built
  /\ \E f \in Fields : \E v \in InputVectors(Len(js.names)) :
       Call("set_vector", <<f, v>>, set_vector(js, f, v))
CallSetByName ==
  \E f \in Fields, x \in InputValues, n \in JointNames \cup {UnknownJoint} :
    Call("set_by_name", <<f, x, n>>, set_by_name(js, f, x, n))
CallSetByIndex ==
  \E f \in Fields, x \in InputValues, i \in JointIndices :
    Call("set_by_index", <<f, x, i>>, set_by_index(js, f, x, i))
CallSetData ==
  /\ Built
  /\ \E v \in InputVectors(4 * Len(js.names)) :
       Call("set_data", <<v>>, JointState_set_data(js, v))
CallSetNamesNb ==
  \E n \in JointCounts :
    Call("set_names_nb", <<n>>, JointState_set_names_nb(js, n))
CallSetNames ==
  \E l \in NameLists : Call("set_names", <<l>>, JointState_set_names(js, l))
CallSetEmpty ==
  \E e \in BOOLEAN :
    Call("set_empty", <<e>>, Returned(State_set_empty(js, e), NoValue))
CallInitialize ==
  Call("initialize", <<>>, Returned(JointState_initialize(js), NoValue))
CallSetZero ==
  Call("set_zero", <<>>, Returned(JointState_set_zero(js), NoValue))
CallCopy == Call("copy", <<>>, Returned(js, JointState_copy(js)))

CallIsCompatible ==
  \E o \in Operands : Call("is_compatible", <<o>>, is_compatible(js, o))
CallJointIsIncompatible ==
  \E o \in Operands : Call("is_incompatible", <<o>>, is_incompatible(js, o))
\* the same two checks with an argument that is a plain State
CallIsCompatibleState ==
  \E o \in PlainStates : Call("is_compatible", <<o>>, is_compatible(js, o))
CallJointIsIncompatibleState ==
  \E o \in PlainStates :
    Call("is_incompatible", <<o>>, is_incompatible(js, o))

CallClampArray ==
  /\ Built
  /\ \E t \in JointStateVariable :
       \E a \in ClampArrays(Len(JointState_get_state_variable(js, t))) :
         Call("clamp_state_variable_array", <<t, a[1], a[2]>>,
              JointState_clamp_state_variable_array(js, a[1], t, a[2]))
CallClamp ==
  \E t \in JointStateVariable, m \in ClampMaxima, n \in NoiseRatios :
    Call("clamp_state_variable", <<t, m, n>>,
         JointState_clamp_state_variable(js, m, t, n))
CallDist ==
  \E o \in DistOperands, t \in JointStateVariable :
    Call("dist", <<o, t>>, JointState_dist(js, o, t))

CallMultiplyArray ==
  /\ Built
  /\ \E t \in JointStateVariable :
       \E l \in InputArrays(Len(JointState_get_state_variable(js, t))) :
         Call("multiply_state_variable_array", <<t, l>>,
              JointState_multiply_state_variable_array(js, l, t))
CallMultiplyMatrix ==
  /\ Built
  /\ \E t \in JointStateVariable :
       \E l \in InputMatrices(Len(JointState_get_state_variable(js, t))) :
         Call("multiply_state_variable_matrix", <<t, l>>,
              JointState_multiply_state_variable_matrix(js, l, t))
CallRobotMultiplyMatrix ==
  /\ Built
  /\ \E t \in JointStateVariable :
       \E l \in InputMatrices(Len(JointState_get_state_variable(js, t))) :
         Call("robot_multiply_state_variable_matrix", <<t, l>>,
              robot_JointState_multiply_state_variable_matrix(js, l, t))
CallMulAssign ==
  \E l \in Scalars : Call("mul_assign", <<l>>, JointState_mul_assign(js, l))
CallMul == \E l \in Scalars : Call("mul", <<l>>, JointState_mul(js, l))
CallMulLeft ==
  \E l \in Scalars : Call("mul_left", <<l>>, JointState_mul_left(l, js))
CallMulAssignMatrix ==
  /\ Built
  /\ \E l \in InputMatrices(4 * Len(js.names)) :
       Call("mul_assign_matrix", <<l>>, JointState_mul_assign_matrix(js, l))
CallMulMatrix ==
  /\ Built
  /\ \E l \in InputMatrices(4 * Len(js.names)) :
       Call("mul_matrix", <<l>>, JointState_mul_matrix(js, l))
CallMulAssignArray ==
  /\ Built
  /\ \E l \in InputArrays(4 * Len(js.names)) :
       Call("mul_assign_array", <<l>>, JointState_mul_assign_array(js, l))
CallMulArray ==
  /\ Built
  /\ \E l \in InputArrays(4 * Len(js.names)) :
       Call("mul_array", <<l>>, JointState_mul_array(js, l))
CallDivAssign ==
  \E l \in Scalars : Call("div_assign", <<l>>, JointState_div_assign(js, l))
CallDiv == \E l \in Scalars : Call("div", <<l>>, JointState_div(js, l))

CallAddAssign ==
  \E o \in Operands : Call("add_assign", <<o>>, JointState_add_assign(js, o))
CallAdd == \E o \in Operands : Call("add", <<o>>, JointState_add(js, o))
CallSubAssign ==
  \E o \in Operands : Call("sub_assign", <<o>>, JointState_sub_assign(js, o))
CallSub == \E o \in Operands : Call("sub", <<o>>, JointState_sub(js, o))
CallClampTwice ==
  \E t \in JointStateVariable, m \in ClampMaxima, n \in NoiseRatios :
    Call("clamp_twice", <<t, m, n>>, ClampTwice(js, m, t, n))
\* the expression (js + o) - o
CallAddThenSub ==
  \E o \in Operands : Call("add_then_sub", <<o>>, AddThenSub(js, o))

Next ==
  \/ NewJointState
  \/ NewJointStateNb
  \/ NewJointStateNames
  \/ NewZeroNb
  \/ NewZeroNames
  \/ NewRandomNb
  \/ NewRandomNames
  \/ Destroy
  \/ CallGetVector
  \/ CallGetByName
  \/ CallGetByIndex
  \/ CallSetVector
  \/ CallSetByName
  \/ CallSetByIndex
  \/ CallSetData
  \/ CallSetNamesNb
  \/ CallSetNames
  \/ CallSetEmpty
  \/ CallInitialize
  \/ CallSetZero
  \/ CallCopy
  \/ CallIsCompatible
  \/ CallJointIsIncompatible
  \/ CallClampArray
  \/ CallClamp
  \/ CallDist
  \/ CallMultiplyArray
  \/ CallMultiplyMatrix
  \/ CallMulAssign
  \/ CallMul
  \/ CallMulLeft
  \/ CallMulAssignMatrix
  \/ CallMulMatrix
  \/ CallMulAssignArray
  \/ CallMulArray
  \/ CallDivAssign
  \/ CallDiv
  \/ CallAddAssign
  \/ CallAdd
  \/ CallSubAssign
  \/ CallSub
  \/ CallIsCompatibleState
  \/ CallJointIsIncompatibleState
  \/ Proceed
  \/ CallGetJointIndex
  \/ CallAddThenSub
  \/ CallClampTwice
  \/ CallRobotMultiplyMatrix

Spec == Init /\ [][Next]_vars


(***************************************************************************)
(* The Cartesian program: a CartesianPose or a CartesianAcceleration is    *)
(* constructed, member functions are called on it one after the other, and *)
(* the object is destroyed.  cret keeps the last call as ret does.         *)
(***************************************************************************)
\* the data handed to set_data: vectors of the two right sizes, of the sizes
\* next to them and of size 0, and a pose with a quaternion along one axis
CartesianData ==
  {Ramp(n) : n \in {0, 5, 6, 7, 8}}
    \cup {<<D(1), D(2), D(3), D(0), D(0), D(0), D(2)>>}
    \cup {[i \in 1..n |-> Round(Norm(-i, 4))] : n \in {6, 7}}
CartesianPositions == {Ramp(3), Const(3, Norm(-1, 2))}
CartesianOrientations ==
  {IdentityQuaternion, <<D(0), D(2), D(0), D(0)>>, <<D(2), D(1), D(0), D(0)>>}
\* a CartesianState with a value in every field
FullState(name, reference) ==
  LET posed == CartesianState_set_pose(CartesianState_ctor(name, reference),
                                       Ramp(7)).state
      moving == CartesianState_set_angular_velocity(
                  CartesianState_set_linear_velocity(posed, Ramp(3)),
                  Const(3, Norm(1, 2)))
      pushed == CartesianState_set_vector(
                  CartesianState_set_vector(moving, "force", Ramp(3)),
                  "torque", Const(3, D(-1)))
  IN CartesianState_set_acceleration(pushed, VScale(D(-1), Ramp(6)))
\* the CartesianState objects handed to the converting constructors
CartesianSources ==
  UNION {{CartesianState_ctor(name, reference),
          CartesianState_set_orientation(
            CartesianState_ctor(name, reference),
            <<D(2), D(1), D(0), D(0)>>),
          CartesianState_Identity(name, reference),
          CartesianState_set_pose(CartesianState_ctor(name, reference),
                                  Ramp(7)).state,
          CartesianState_set_acceleration(CartesianState_ctor(name, reference),
                                          Ramp(6)),
          FullState(name, reference),
          State_set_empty(FullState(name, reference), TRUE)} :
         name \in Names, reference \in Names}

IsPose == cart # NoObject /\ cart.kind = "CartesianPose"
IsAcceleration == cart # NoObject /\ cart.kind = "CartesianAcceleration"

CartCall(op, args, r) ==
  /\ cart # NoObject
  /\ cret = NoCall
  /\ cart' = r.state
  /\ cret' = [op |-> op, args |-> args, pre |-> cart,
              outcome |-> r.outcome, value |-> r.value]
  /\ UNCHANGED <<spatial, sret, js, ret, timed, now, tret>>

CartConstruct(obj) ==
  /\ cart = NoObject
  /\ cart' = obj
  /\ cret' = NoCall
  /\ UNCHANGED <<spatial, sret, js, ret, timed, now, tret>>

\* a construction from the CartesianState state, which cret keeps
CartConvert(state, obj) ==
  /\ cart = NoObject
  /\ cart' = obj
  /\ cret' = [op |-> "ctor_state", args |-> <<state>>, pre |-> state,
              outcome |-> "ok", value |-> obj]
  /\ UNCHANGED <<spatial, sret, js, ret, timed, now, tret>>

NewCartesianPoseDefault == CartConstruct(CartesianPose_ctor_default)
NewCartesianPose ==
  \E name \in Names, reference \in Names :
    CartConstruct(CartesianPose_ctor(name, reference))
NewCartesianPosePosition ==
  \E name \in Names, reference \in Names, x \in CartesianPositions :
    CartConstruct(CartesianPose_ctor_position(name, x, reference))
NewCartesianPosePose ==
  \E name \in Names, reference \in Names :
    \E x \in CartesianPositions, q \in CartesianOrientations :
      CartConstruct(CartesianPose_ctor_pose(name, x, q, reference))
NewCartesianPoseState ==
  \E state \in CartesianSources :
    CartConvert(state, CartesianPose_ctor_state(state))
NewCartesianPoseIdentity ==
  \E name \in Names, reference \in Names :
    CartConstruct(CartesianPose_Identity(name, reference))

NewCartesianAccelerationDefault ==
  CartConstruct(CartesianAcceleration_ctor_default)
NewCartesianAcceleration ==
  \E name \in Names, reference \in Names :
    CartConstruct(CartesianAcceleration_ctor(name, reference))
NewCartesianAccelerationLinear ==
  \E name \in Names, reference \in Names, x \in CartesianPositions :
    CartConstruct(CartesianAcceleration_ctor_linear(name, x, reference))
NewCartesianAccelerationVector ==
  \E name \in Names, reference \in Names :
    CartConstruct(CartesianAcceleration_ctor_acceleration(name, Ramp(6),
                                                          reference))
NewCartesianAccelerationState ==
  \E state \in CartesianSources :
    CartConvert(state, CartesianAcceleration_ctor_state(state))
NewCartesianAccelerationZero ==
  \E name \in Names, reference \in Names :
    CartConstruct(CartesianAcceleration_Zero(name, reference))

CallPoseData == IsPose /\ CartCall("data", <<>>, CartesianPose_data(cart))
CallPoseSetData ==
  /\ IsPose
  /\ \E data \in CartesianData :
       CartCall("set_data", <<data>>, CartesianPose_set_data(cart, data))
CallPoseSetDataStd ==
  /\ IsPose
  /\ \E data \in CartesianData :
       CartCall("set_data_std", <<data>>,
                CartesianPose_set_data_std(cart, data))
CallPoseCopy == IsPose /\ CartCall("copy", <<>>, CartesianPose_copy(cart))

CallAccelerationData ==
  IsAcceleration /\ CartCall("data", <<>>, CartesianAcceleration_data(cart))
CallAccelerationCopy ==
  /\ IsAcceleration
  /\ CartCall("copy", <<>>, CartesianAcceleration_copy(cart))
CallAccelerationSetData ==
  /\ IsAcceleration
  /\ \E data \in CartesianData :
       CartCall("set_data", <<data>>,
                CartesianAcceleration_set_data(cart, data))
CallAccelerationSetDataStd ==
  /\ IsAcceleration
  /\ \E data \in CartesianData :
       CartCall("set_data_std", <<data>>,
                CartesianAcceleration_set_data_std(cart, data))

\* the periods handed to the conversions, in nanoseconds: 0, 0.25 s, 1 s
Durations == {0, NanosPerSecond \div 4, NanosPerSecond}
CallPoseDivDt ==
  /\ IsPose
  /\ \E dt \in Durations : \E log \in QuaternionLogs(cart.orientation) :
       CartCall("div_dt", <<dt>>, CartesianPose_div_dt(cart, dt, log))
CallAccelerationMulDt ==
  /\ IsAcceleration
  /\ \E dt \in Durations :
       CartCall("mul_dt", <<dt>>, CartesianAcceleration_mul_dt(cart, dt))
CallAccelerationDtMul ==
  /\ IsAcceleration
  /\ \E dt \in Durations :
       CartCall("dt_mul", <<dt>>, CartesianAcceleration_dt_mul(dt, cart))

\* the caller goes on to its next call
CartProceed ==
  /\ cart # NoObject
  /\ cret # NoCall
  /\ cret' = NoCall
  /\ UNCHANGED <<cart, spatial, sret, js, ret, timed, now, tret>>

CartDestroy ==
  /\ cart # NoObject
  /\ cart' = NoObject
  /\ cret' = NoCall
  /\ UNCHANGED <<spatial, sret, js, ret, timed, now, tret>>

CartesianNext ==
  \/ NewCartesianPoseDefault
  \/ NewCartesianPose
  \/ NewCartesianPosePosition
  \/ NewCartesianPosePose
  \/ NewCartesianPoseState
  \/ NewCartesianPoseIdentity
  \/ NewCartesianAccelerationDefault
  \/ NewCartesianAcceleration
  \/ NewCartesianAccelerationLinear
  \/ NewCartesianAccelerationVector
  \/ NewCartesianAccelerationState
  \/ NewCartesianAccelerationZero
  \/ CallPoseData
  \/ CallPoseSetData
  \/ CallPoseSetDataStd
  \/ CallPoseCopy
  \/ CallAccelerationData
  \/ CallAccelerationSetData
  \/ CallAccelerationSetDataStd
  \/ CallAccelerationCopy
  \/ CallPoseDivDt
  \/ CallAccelerationMulDt
  \/ CallAccelerationDtMul
  \/ CartProceed
  \/ CartDestroy

SpecCartesian == Init /\ [][CartesianNext]_vars


(***************************************************************************)
(* The timestamp program: two States are constructed, copied, assigned and *)
(* written while the steady clock advances.  tret keeps the last call: the *)
(* object it was made on (this), its argument object (other), the objects  *)
(* as they were before it (pre), the instant of the call (at) and the      *)
(* value it returned.                                                      *)
(***************************************************************************)
TimedNames == [X |-> "a", Y |-> "b"]
TimedTypes == {"JOINT_STATE"}
TimeDelays == {D(0), Norm(1, 4)}
Alive(i) == timed[i] # NoObject

TimedCall(op, i, j, obj, value) ==
  /\ timed' = [timed EXCEPT ![i] = obj]
  /\ tret' = [op |-> op, this |-> i, other |-> j, pre |-> timed, at |-> now,
              value |-> value]
  /\ UNCHANGED <<now, spatial, sret, js, ret, cart, cret>>

\* steady_clock advances
Tick ==
  /\ now < MaxTime
  /\ now' = now + 1
  /\ tret' = NoCall
  /\ UNCHANGED <<timed, spatial, sret, js, ret, cart, cret>>

TimedNewDefault(i) ==
  /\ ~Alive(i)
  /\ TimedCall("ctor", i, i, State_ctor_default_at(now), NoValue)
TimedNew(i) ==
  /\ ~Alive(i)
  /\ TimedCall("ctor", i, i, State_ctor_at(TimedNames[i], now), NoValue)
\* State copy(source);
TimedCopyConstruct(i, j) ==
  /\ ~Alive(i) /\ Alive(j)
  /\ TimedCall("copy_ctor", i, j, State_copy_ctor(timed[j], now), NoValue)
\* target = source;
TimedAssign(i, j) ==
  /\ Alive(i) /\ Alive(j)
  /\ TimedCall("assign", i, j, State_assign(timed[i], timed[j], now), NoValue)
TimedSetName(i) ==
  /\ Alive(i)
  /\ TimedCall("set_name", i, i, State_set_name(timed[i], TimedNames[i]),
               NoValue)
TimedSetType(i) ==
  /\ Alive(i)
  /\ \E type \in TimedTypes :
       TimedCall("set_type", i, i, State_set_type(timed[i], type), NoValue)
TimedSetEmpty(i) ==
  /\ Alive(i)
  /\ \E empty \in BOOLEAN :
       TimedCall("set_empty", i, i, State_set_empty(timed[i], empty), NoValue)
TimedInitialize(i) ==
  /\ Alive(i)
  /\ TimedCall("initialize", i, i, State_initialize(timed[i]), NoValue)
\* a field write of a derived class, which reaches the State through
\* set_filled()
TimedFieldWrite(i) ==
  /\ Alive(i)
  /\ TimedCall("field_write", i, i, State_set_filled(timed[i]), NoValue)
TimedResetTimestamp(i) ==
  /\ Alive(i)
  /\ TimedCall("reset_timestamp", i, i,
               State_reset_timestamp(timed[i], now), NoValue)
TimedGetAge(i) ==
  /\ Alive(i)
  /\ TimedCall("get_age", i, i, timed[i], State_get_age(timed[i], now))
TimedIsDeprecated(i) ==
  /\ Alive(i)
  /\ \E time_delay \in TimeDelays :
       TimedCall("is_deprecated", i, i, timed[i],
                 State_is_deprecated(timed[i], time_delay, now))
TimedDestroy(i) ==
  /\ Alive(i)
  /\ timed' = [timed EXCEPT ![i] = NoObject]
  /\ tret' = NoCall
  /\ UNCHANGED <<now, spatial, sret, js, ret, cart, cret>>

\* X is the object the calls are made on, Y the State it is copied from and
\* assigned; Y is constructed, written and destroyed only.
TimeNext ==
  \/ Tick
  \/ TimedNewDefault("X")
  \/ \E i \in TimedIds : TimedNew(i)
  \/ TimedCopyConstruct("X", "Y")
  \/ \E j \in TimedIds : TimedAssign("X", j)
  \/ TimedSetName("X")
  \/ TimedSetType("X")
  \/ TimedSetEmpty("X")
  \/ TimedInitialize("X")
  \/ \E i \in TimedIds : TimedFieldWrite(i)
  \/ TimedResetTimestamp("X")
  \/ TimedGetAge("X")
  \/ TimedIsDeprecated("X")
  \/ \E i \in TimedIds : TimedDestroy(i)

SpecTime == Init /\ [][TimeNext]_vars

(***************************************************************************)
(* Claims about SpatialState::is_incompatible (checked under SpecSpatial). *)
(***************************************************************************)
\* The last call was this.is_incompatible(other) with a SpatialState receiver.
SpatialCall == sret # NoCall /\ IsSpatial(spatial[sret.this])
SThis == spatial[sret.this]
SOther == spatial[sret.other]
\* Both the receiver and the argument of the last call are SpatialStates.
SpatialPair == SpatialCall /\ IsSpatial(SOther)

\* The three-way frame relation of two spatial states.
FrameRelated(a, b) ==
  \/ a.name = b.reference_frame
  \/ a.reference_frame = b.name
  \/ a.reference_frame = b.reference_frame

\* C1: for spatial states A and B, A.is_incompatible(B) returns false exactly
\* when A.name = B.reference_frame or A.reference_frame = B.name or
\* A.reference_frame = B.reference_frame, and true exactly when none holds.
C1_ThreeWayRelation ==
  SpatialPair =>
    /\ sret.outcome = "ok"
    /\ sret.value \in BOOLEAN
    /\ (sret.value = FALSE) <=> FrameRelated(SThis, SOther)
    /\ (sret.value = TRUE) <=> ~FrameRelated(SThis, SOther)

\* C1 witnesses: a call that found the operands compatible through the
\* parent relation only, and (below, C4) calls that found them incompatible.
C1_Witness ==
  /\ SpatialPair
  /\ sret.value = FALSE
  /\ SThis.name = SOther.reference_frame
  /\ SThis.reference_frame # SOther.name
  /\ SThis.reference_frame # SOther.reference_frame

\* C2: spatial compatibility is symmetric: the result of A.is_incompatible(B)
\* is the result B.is_incompatible(A) gives on the same two objects.
C2_Symmetric ==
  SpatialPair =>
    /\ sret.outcome = "ok"
    /\ SpatialState_is_incompatible(SOther, SThis).outcome = "ok"
    /\ sret.value = SpatialState_is_incompatible(SOther, SThis).value

\* C2 witness: a call on two different objects related only as parent and
\* child, which is the relation that swaps its roles in the reverse call.
C2_Witness ==
  /\ SpatialPair
  /\ sret.this # sret.other
  /\ sret.value = FALSE
  /\ SThis.reference_frame = SOther.name
  /\ SThis.name # SOther.reference_frame
  /\ SThis.reference_frame # SOther.reference_frame

IsEeInBase(o) == IsSpatial(o) /\ o.name = "ee" /\ o.reference_frame = "base"
IsBaseInWorld(o) ==
  IsSpatial(o) /\ o.name = "base" /\ o.reference_frame = "world"
IsInBase(o) == IsSpatial(o) /\ o.reference_frame = "base"

\* C3 as stated: with A = (ee, base), B = (base, world) and C in frame base,
\* A and B are compatible, B and C are compatible, and some name of C makes
\* A.is_incompatible(C) true.  Stated on the state in which A was checked
\* against such a C.
C3_Original ==
  (SpatialPair /\ IsEeInBase(SThis) /\ IsInBase(SOther)) =>
    /\ ~SpatialState_is_incompatible(SThis,
            SpatialState_ctor("base", "world")).value
    /\ \E cname \in Names :
         SpatialState_is_incompatible(SThis,
            SpatialState_ctor(cname, "base")).value

\* C3 amended: A and B are compatible, B and C are compatible, and A and C
\* are compatible too, whatever the name of C: they share the frame base.
C3_SiblingsCompatible ==
  SpatialPair =>
    /\ (IsEeInBase(SThis) /\ IsBaseInWorld(SOther)) => sret.value = FALSE
    /\ (IsBaseInWorld(SThis) /\ IsInBase(SOther)) => sret.value = FALSE
    /\ (IsEeInBase(SThis) /\ IsInBase(SOther)) => sret.value = FALSE

\* C3 witness: A was checked against a C in frame base whose name is none of
\* A's name or frame, so only the sibling relation holds.
C3_Witness ==
  /\ SpatialPair
  /\ IsEeInBase(SThis)
  /\ IsInBase(SOther)
  /\ SOther.name \notin {"ee", "base"}
  /\ sret.value = FALSE

\* A, B and C are spatial states with A a sibling of B only, B the parent of
\* C only, and A unrelated to C.
ChainABC ==
  LET a == spatial["A"]
      b == spatial["B"]
      c == spatial["C"]
  IN /\ IsSpatial(a) /\ IsSpatial(b) /\ IsSpatial(c)
     /\ a.reference_frame = b.reference_frame
     /\ b.name = c.reference_frame
     /\ ~FrameRelated(a, c)

\* C4: spatial compatibility is not transitive.  Whenever A and B share a
\* frame, B is the frame of C and A is unrelated to C, the calls A-B and B-C
\* report compatible and the call A-C reports incompatible; the witness shows
\* such a triple is reached.
C4_NotTransitive ==
  (ChainABC /\ sret # NoCall) =>
    /\ (sret.this = "A" /\ sret.other = "B") => sret.value = FALSE
    /\ (sret.this = "B" /\ sret.other = "C") => sret.value = FALSE
    /\ (sret.this = "A" /\ sret.other = "C") => sret.value = TRUE

C4_Witness ==
  /\ ChainABC
  /\ sret # NoCall
  /\ sret.this = "A"
  /\ sret.other = "C"
  /\ sret.value = TRUE
  /\ ~is_incompatible(spatial["A"], spatial["B"]).value
  /\ ~is_incompatible(spatial["B"], spatial["C"]).value

\* C10: SpatialState::is_incompatible called with an argument that is not a
\* SpatialState fails with InvalidCast: it neither lets std::bad_cast escape
\* nor returns a boolean.
C10_InvalidCast ==
  (SpatialCall /\ ~IsSpatial(SOther)) =>
    /\ sret.outcome = "InvalidCast"
    /\ sret.value = NoValue

C10_Witness ==
  /\ SpatialCall
  /\ SOther.kind = "State"
  /\ sret.outcome = "InvalidCast"


(***************************************************************************)
(* Claims about JointState (checked under Spec).                           *)
(***************************************************************************)
Called(ops) == ret.op \in ops
\* the first argument of the last call: the operand of a binary operator
Operand == ret.args[1]

\* C5: for every pair of states a, b, a.is_incompatible(b) is the logical
\* negation of a.is_compatible(b).
C5_IncompatibleIsNegation ==
  /\ Called({"is_incompatible"}) =>
       /\ ret.outcome = "ok"
       /\ is_compatible(ret.pre, Operand).outcome = "ok"
       /\ ret.value = ~is_compatible(ret.pre, Operand).value
  /\ Called({"is_compatible"}) =>
       /\ ret.outcome = "ok"
       /\ is_incompatible(ret.pre, Operand).outcome = "ok"
       /\ ret.value = ~is_incompatible(ret.pre, Operand).value

NameSet(l) == {l[i] : i \in 1..Len(l)}

\* C6: JointState::is_compatible(other) is true only if the two name lists
\* have the same length and the same name at every index; lists that are
\* equal as sets but differ in order or length are never compatible.
C6_SameNamesSameOrder ==
  (Called({"is_compatible"}) /\ IsJointState(Operand)) =>
    /\ ret.outcome = "ok"
    /\ ret.value = TRUE =>
         /\ Len(ret.pre.names) = Len(Operand.names)
         /\ \A i \in 1..Len(ret.pre.names) :
              ret.pre.names[i] = Operand.names[i]
    /\ (/\ NameSet(ret.pre.names) = NameSet(Operand.names)
        /\ ret.pre.names # Operand.names) => ret.value = FALSE

\* C6 witness: the same two names in the opposite order were found
\* incompatible.
C6_Witness ==
  /\ Called({"is_compatible"})
  /\ IsJointState(Operand)
  /\ ret.pre.names = <<"j1", "j2">>
  /\ Operand.names = <<"j2", "j1">>
  /\ ret.outcome = "ok"
  /\ ret.value = FALSE

BinaryOps == {"add_assign", "add", "sub_assign", "sub", "dist"}
\* the last call was a binary operator on names [j1, j2] and [j2, j1]
SwappedNames ==
  /\ Called(BinaryOps)
  /\ ret.pre.names = <<"j1", "j2">>
  /\ Operand.names = <<"j2", "j1">>

\* C7 as stated: for a JointState constructed with names [j1, j2] and one
\* constructed with names [j2, j1], every binary operator fails with
\* IncompatibleStates.
C7_Original == SwappedNames => ret.outcome = "IncompatibleStates"

\* C7 amended: for two non-empty JointStates with names [j1, j2] and
\* [j2, j1] every binary operator fails with IncompatibleStates and leaves
\* the receiver as it was; while either operand is empty, as both are right
\* after construction, the operator fails with EmptyState.
C7_SwappedNamesRejected ==
  SwappedNames =>
    /\ (~ret.pre.empty /\ ~Operand.empty) =>
         ret.outcome = "IncompatibleStates"
    /\ (ret.pre.empty \/ Operand.empty) => ret.outcome = "EmptyState"
    /\ js = ret.pre

C7_Witness ==
  /\ SwappedNames
  /\ Called({"sub_assign"})
  /\ ~ret.pre.empty
  /\ ~Operand.empty
  /\ ret.outcome = "IncompatibleStates"

ScalingOps ==
  {"mul_assign", "mul", "mul_left", "mul_assign_array", "mul_array",
   "mul_assign_matrix", "mul_matrix", "multiply_state_variable_array",
   "multiply_state_variable_matrix", "div_assign", "div",
   "clamp_state_variable", "clamp_state_variable_array"}

\* C8: scaling by a scalar, an array or a matrix, scalar division and
\* clamp_state_variable fail with EmptyState when the state is empty.
C8_EmptyStateRejected ==
  (Called(ScalingOps) /\ ret.pre.empty) => ret.outcome = "EmptyState"

Getters == {"get_vector", "get_by_name", "get_by_index"}

\* C9: every numeric-field getter of JointState checks the empty flag first
\* and fails when the state is empty.
C9_GettersRejectEmpty ==
  (Called(Getters) /\ ret.pre.empty) => ret.outcome = "EmptyState"

(***************************************************************************)
(* Claims about joint lookup and the index-based accessors (under Spec).   *)
(***************************************************************************)
\* the positions, counted from 0, at which names holds joint_name
Matches(names, joint_name) ==
  {i \in 0..(Len(names) - 1) : names[i + 1] = joint_name}

\* C11: get_joint_index(name) returns the smallest index i with
\* names[i] = name when the name is present (so the result is below the size
\* and names[result] = name), fails with JointNotFound when no entry of
\* names equals name, and never modifies the state.
C11_FirstMatchOrNotFound ==
  Called({"get_joint_index"}) =>
    LET hits == Matches(ret.pre.names, ret.args[1]) IN
      /\ js = ret.pre
      /\ hits = {} => ret.outcome = "JointNotFound"
      /\ hits # {} =>
           /\ ret.outcome = "ok"
           /\ ret.value \in hits
           /\ ret.value < JointState_get_size(ret.pre)
           /\ \A i \in hits : ret.value <= i

\* C11 witness: a name held at two positions was looked up and the first
\* position came back.
C11_Witness ==
  /\ Called({"get_joint_index"})
  /\ Cardinality(Matches(ret.pre.names, ret.args[1])) > 1
  /\ ret.outcome = "ok"
  /\ ret.value = 0

\* C11 witness of the failure: a name that is not in names was looked up.
C11_WitnessNotFound ==
  /\ Called({"get_joint_index"})
  /\ ret.pre.names # <<>>
  /\ Matches(ret.pre.names, ret.args[1]) = {}
  /\ ret.outcome = "JointNotFound"

IndexOps == {"get_by_index", "set_by_index"}
\* the index handed to the last index-based call
IndexArg == ret.args[Len(ret.args)]

\* C12: an index-based accessor (get or set of a position, velocity,
\* acceleration or torque by index) fails with JointNotFound exactly when
\* the index is above the size; an index equal to the size passes the range
\* assertion.
C12_RejectedIffAboveSize ==
  Called(IndexOps) =>
    (ret.outcome = "JointNotFound"
       <=> IndexArg > JointState_get_size(ret.pre))

\* C12 witness: a getter was called with an index equal to the size of a
\* state with joints and returned.
C12_Witness ==
  /\ Called({"get_by_index"})
  /\ JointState_get_size(ret.pre) > 0
  /\ IndexArg = JointState_get_size(ret.pre)
  /\ ret.outcome = "ok"

\* C13: an index-based getter or setter called with an index that is out of
\* range (at or above the size) always fails with JointNotFound.
C13_OutOfRangeRejected ==
  (Called(IndexOps) /\ IndexArg >= JointState_get_size(ret.pre)) =>
    ret.outcome = "JointNotFound"

(***************************************************************************)
(* Claims about the shape of a JointState over its life (under Spec).      *)
(***************************************************************************)
\* C14: after any sequence of JointState constructors and set_names calls
\* the names list holds no joint name twice.
C14_NamesUnique ==
  js # NoObject =>
    \A i, k \in 1..Len(js.names) : js.names[i] = js.names[k] => i = k

\* the joint count handed to the last set_names call
SetNamesCount ==
  IF ret.op = "set_names_nb" THEN ret.args[1] ELSE Len(ret.args[1])

\* C15: in every reachable JointState the positions, velocities,
\* accelerations and torques each have exactly names.size() elements;
\* set_names (both overloads) fails with IncompatibleSize when the new count
\* differs from the size and otherwise leaves the size and the four fields
\* as they were.
C15_FieldsCoSized ==
  /\ js # NoObject => \A f \in Fields : Len(js[f]) = Len(js.names)
  /\ Called({"set_names_nb", "set_names"}) =>
       /\ SetNamesCount # JointState_get_size(ret.pre) =>
            ret.outcome = "IncompatibleSize" /\ js = ret.pre
       /\ SetNamesCount = JointState_get_size(ret.pre) =>
            /\ ret.outcome = "ok"
            /\ JointState_get_size(js) = JointState_get_size(ret.pre)
            /\ \A f \in Fields : js[f] = ret.pre[f]

\* C15 witness: set_names gave new names to a state with joints whose
\* fields hold values other than zero.
C15_Witness ==
  /\ Called({"set_names"})
  /\ ret.outcome = "ok"
  /\ js.names # ret.pre.names
  /\ JointState_get_size(js) > 1
  /\ js.positions # Zeros(Len(js.positions))

\* what the plain constructors return
PlainConstructed ==
  {State_ctor(n) : n \in Names}
  \cup {JointState_ctor_default}
  \cup {JointState_ctor_nb("robot", n) : n \in JointCounts}
  \cup {JointState_ctor_names("robot", l) : l \in NameLists}
\* the member functions that write the numeric fields
FieldWrites ==
  {"set_vector", "set_by_name", "set_by_index", "set_data",
   "clamp_state_variable_array", "clamp_state_variable",
   "multiply_state_variable_array", "multiply_state_variable_matrix",
   "mul_assign", "mul_assign_matrix", "mul_assign_array", "div_assign",
   "add_assign", "sub_assign"}

\* C16: a state is empty after every plain constructor; it becomes
\* non-empty on the first successful explicit field write (or when the flag
\* is cleared with set_empty(false)) and then stays non-empty through every
\* later operation until set_empty(true) or initialize() is called.
C16_EmptyUntilFirstWrite ==
  /\ \A o \in PlainConstructed : o.empty
  /\ (ret # NoCall /\ ret.pre.empty /\ ~js.empty) =>
       \/ Called(FieldWrites) /\ ret.outcome = "ok"
       \/ Called({"set_empty"}) /\ ret.args[1] = FALSE
  /\ (ret # NoCall /\ ~ret.pre.empty /\ js.empty) =>
       \/ Called({"set_empty"}) /\ ret.args[1] = TRUE
       \/ Called({"initialize"})

(***************************************************************************)
(* Claims about the JointState arithmetic (under Spec).                    *)
(***************************************************************************)
\* C18: dividing a non-empty JointState by the scalar 0 (operator/ and
\* operator/=) fails with an error instead of returning or storing a
\* result, and leaves the state unchanged (stated for the states that have
\* joints, whose fields the division would write).
C18_DivisionByZeroFails ==
  (/\ Called({"div", "div_assign"})
   /\ ~ret.pre.empty
   /\ JointState_get_size(ret.pre) > 0
   /\ ret.args[1] = D(0)) =>
    /\ ret.outcome # "ok"
    /\ js = ret.pre

\* Exact arithmetic on finite values, to measure what the rounded
\* arithmetic of the program returns.
QAdd(x, y) == Norm(x[1] * y[2] + y[1] * x[2], x[2] * y[2])
QSub(x, y) == QAdd(x, DNeg(y))
QMul(x, y) == Norm(x[1] * y[1], x[2] * y[2])
QLe(x, y) == x[1] * y[2] <= y[1] * x[2]
\* three units of relative rounding error, 3 * 2^-MantissaBits
Tolerance == Norm(3, 2^MantissaBits)

\* the last call was (A + B) - B on non-empty compatible A (the receiver)
\* and B (the operand)
AddSubCase ==
  /\ Called({"add_then_sub"})
  /\ ~ret.pre.empty
  /\ ~Operand.empty
  /\ JointState_is_compatible(ret.pre, Operand).value

\* C19 as stated: for all non-empty, compatible JointStates A and B,
\* (A + B) - B has the same positions, velocities, accelerations and
\* torques as A, the same names and the same name, and A and B are
\* unchanged by the expression.
C19_Original ==
  AddSubCase =>
    /\ ret.outcome = "ok"
    /\ \A f \in Fields : ret.value[f] = ret.pre[f]
    /\ ret.value.names = ret.pre.names
    /\ ret.value.name = ret.pre.name
    /\ js = ret.pre

\* C19 amended: for all non-empty, compatible JointStates A and B with
\* finite fields, (A + B) - B has the names and the name of A and leaves A
\* unchanged; an element of its fields equals that of A when the sum a + b
\* is a double (no rounding took place), and in every case differs from it
\* by no more than 3 * 2^-MantissaBits * (|a| + |b|).
C19_AddSubWithinTolerance ==
  AddSubCase =>
    /\ ret.outcome = "ok"
    /\ ret.value.names = ret.pre.names
    /\ ret.value.name = ret.pre.name
    /\ ~ret.value.empty
    /\ js = ret.pre
    /\ \A f \in Fields : \A i \in 1..Len(ret.pre[f]) :
         LET a == ret.pre[f][i]
             b == Operand[f][i]
             r == ret.value[f][i]
         IN (IsFinite(a) /\ IsFinite(b)) =>
              /\ IsFinite(r)
              /\ QAdd(a, b) = DAdd(a, b) => r = a
              /\ QLe(DAbs(QSub(r, a)),
                     QMul(Tolerance, QAdd(DAbs(a), DAbs(b))))

\* C19 witness: (A + B) - B was computed for an A and a B that hold values
\* other than zero, and an element came back different from that of A.
C19_Witness ==
  /\ AddSubCase
  /\ ret.outcome = "ok"
  /\ \E f \in Fields : \E i \in 1..Len(ret.pre[f]) :
       /\ ret.pre[f][i] # D(0)
       /\ Operand[f][i] # D(0)
       /\ ret.value[f][i] # ret.pre[f][i]

\* C19 witness of the exact case: every element of A and of B is other than
\* zero and (A + B) - B came back with the fields of A.
C19_WitnessExact ==
  /\ AddSubCase
  /\ ret.outcome = "ok"
  /\ JointState_get_size(ret.pre) > 0
  /\ \A f \in Fields : \A i \in 1..Len(ret.pre[f]) :
       /\ ret.pre[f][i] # D(0)
       /\ Operand[f][i] # D(0)
       /\ ret.value[f][i] = ret.pre[f][i]

\* what one clamp_state_variable call with the arguments of the last call
\* makes of the state the last call found
ClampedOnce ==
  JointState_clamp_state_variable(
    ret.pre, ret.args[2], ret.args[1], ret.args[3])

\* C20: JointState clamping is idempotent: for every state, every selector
\* and every pair of arguments (max_absolute_value, noise_ratio), applying
\* clamp_state_variable twice with the same arguments yields the same field
\* values as applying it once.
C20_ClampIdempotent ==
  (Called({"clamp_twice"}) /\ ClampedOnce.outcome = "ok") =>
    /\ ret.outcome = "ok"
    /\ \A f \in Fields : js[f] = ClampedOnce.state[f]


(***************************************************************************)
(* Claims about set_data of CartesianPose and CartesianAcceleration        *)
(* (checked under SpecCartesian).                                          *)
(***************************************************************************)
SetDataOps == {"set_data", "set_data_std"}
SetDataCalled == cret # NoCall /\ cret.op \in SetDataOps
\* the size set_data of the dynamic class of the receiver accepts
DataSize(this) == IF this.kind = "CartesianPose" THEN 7 ELSE 6

\* C17: set_data of a CartesianPose accepts a vector of size 7 and set_data
\* of a CartesianAcceleration one of size 6, through the Eigen overload and
\* through the std::vector overload; every other size fails with
\* IncompatibleSize and leaves the state, its empty flag included, as it was.
C17_SetDataSizeChecked ==
  SetDataCalled =>
    IF Len(cret.args[1]) = DataSize(cret.pre)
    THEN /\ cret.outcome = "ok"
         /\ ~cart.empty
         /\ IF cart.kind = "CartesianPose"
            THEN /\ cart.position = Segment(cret.args[1], 0, 3)
                 /\ cart.orientation = Normalized(Segment(cret.args[1], 3, 4))
            ELSE CartesianState_get_acceleration(cart) = cret.args[1]
    ELSE /\ cret.outcome = "IncompatibleSize"
         /\ cart = cret.pre

\* a vector one element too long was thrown out by an empty object, which is
\* still empty
C17_Witness ==
  /\ SetDataCalled
  /\ Len(cret.args[1]) = DataSize(cret.pre) + 1
  /\ cret.outcome = "IncompatibleSize"
  /\ cret.pre.empty
  /\ cart.empty

\* a vector of the right size was stored through the std::vector overload
C17_WitnessAccepted ==
  /\ SetDataCalled
  /\ cret.op = "set_data_std"
  /\ cret.outcome = "ok"
  /\ cret.pre.empty
  /\ cart # cret.pre

(***************************************************************************)
(* Claims about the rule of clamp_state_variable (checked under Spec).     *)
(***************************************************************************)
\* the selected variable before and after the last call
SelectedBefore == JointState_get_state_variable(ret.pre, ret.args[1])
SelectedAfter == JointState_get_state_variable(js, ret.args[1])
\* element i of the selected variable was above the maximum and outside the
\* dead zone when clamp_state_variable(type, max, noise_ratio) was called
Offending(i) ==
  /\ DGt(DAbs(SelectedBefore[i]), ret.args[2])
  /\ ClampElement(SelectedBefore[i], ret.args[2], ret.args[3]) # D(0)

\* C21: when clamp_state_variable finds a value above its maximum, it scales
\* the whole selected vector by the common factor max/|value|, so that the
\* ratios between the elements are kept, rather than truncating the offending
\* element alone.
C21_WholeVectorScaled ==
  (Called({"clamp_state_variable"}) /\ ret.outcome = "ok") =>
    \A i \in 1..Len(SelectedBefore) :
      Offending(i) =>
        \E k \in 1..Len(SelectedBefore) :
          /\ Offending(k)
          /\ SelectedAfter =
               VScale(DDiv(ret.args[2], DAbs(SelectedBefore[k])),
                      SelectedBefore)

(***************************************************************************)
(* Claims about scaling (checked under Spec).                              *)
(***************************************************************************)
SingleSelectors == {"POSITIONS", "VELOCITIES", "ACCELERATIONS", "TORQUES"}
SelectorField(t) ==
  CASE t = "POSITIONS" -> "positions"
    [] t = "VELOCITIES" -> "velocities"
    [] t = "ACCELERATIONS" -> "accelerations"
    [] t = "TORQUES" -> "torques"
\* every element of the four fields of after is lambda times that of before
ScaledBy(lambda, before, after) ==
  \A f \in Fields : after[f] = VScale(lambda, before[f])
\* the last call handed a gain of the right size to multiply_state_variable
\* with a single-field selector
SingleFieldGain(ops) ==
  /\ Called(ops)
  /\ ret.args[1] \in SingleSelectors
  /\ IF ret.op = "multiply_state_variable_array"
       THEN Len(ret.args[2]) = Len(SelectedBefore)
       ELSE ret.args[2].rows = Len(SelectedBefore)
            /\ ret.args[2].cols = Len(SelectedBefore)
\* the selected field holds the product, the other three fields, the names
\* and the name of the state are as before
OnlySelectedReplaced ==
  /\ ret.outcome = "ok"
  /\ SelectedAfter =
       (IF ret.op = "multiply_state_variable_array"
          THEN VCwise(ret.args[2], SelectedBefore)
          ELSE MatVec(ret.args[2], SelectedBefore))
  /\ \A f \in Fields \ {SelectorField(ret.args[1])} : js[f] = ret.pre[f]
  /\ js.names = ret.pre.names
  /\ js.name = ret.pre.name

\* C22 as far as space/joint/JointState.cpp goes: the scalar products scale
\* every element of the four fields, multiply_state_variable with a
\* single-field selector replaces that field only.
C22_SpaceJointScaling ==
  /\ (Called({"mul_assign"}) /\ ret.outcome = "ok") =>
       ScaledBy(ret.args[1], ret.pre, js)
  /\ (Called({"mul", "mul_left"}) /\ ret.outcome = "ok") =>
       ScaledBy(ret.args[1], ret.pre, ret.value) /\ js = ret.pre
  /\ SingleFieldGain({"multiply_state_variable_array",
                      "multiply_state_variable_matrix"}) =>
       OnlySelectedReplaced

\* C22: JointState scaling changes exactly the selected fields: the scalar
\* operator* and operator*= multiply every element of positions, velocities,
\* accelerations and torques by the scalar, and multiply_state_variable with
\* a single-field selector (array or matrix gain, in space/joint and in
\* robot) replaces only that field and leaves the other three fields, the
\* names and the name of the state unchanged.
C22_ScalingChangesSelectedFields ==
  /\ C22_SpaceJointScaling
  /\ SingleFieldGain({"robot_multiply_state_variable_matrix"}) =>
       OnlySelectedReplaced

(***************************************************************************)
(* Claims about dist (checked under Spec).                                 *)
(***************************************************************************)
\* the last call was a.dist(b, s) and returned a distance
DistCase == Called({"dist"}) /\ ret.outcome = "ok"
DistOf(a, b, s) == JointState_dist(a, b, s).value
\* every element of every field of the state is a finite double
FiniteFields(state) ==
  \A f \in Fields : \A i \in 1..Len(state[f]) : IsFinite(state[f][i])
\* the state with every field but that of the selector s set to zero
OnlyField(state, s) ==
  [f \in DOMAIN state |->
     IF f \in Fields \ {SelectorField(s)}
       THEN Zeros(Len(state[f])) ELSE state[f]]
\* the four parts of C23 for the operands a and b and the selector s of the
\* last call, equality being == of doubles
DistRules(a, b, s) ==
  /\ s = "ALL" =>
       DEq(ret.value,
           DAdd(DAdd(DAdd(DistOf(a, b, "POSITIONS"),
                          DistOf(a, b, "VELOCITIES")),
                     DistOf(a, b, "ACCELERATIONS")),
                DistOf(a, b, "TORQUES")))
  /\ s \in SingleSelectors =>
       DEq(ret.value, DistOf(OnlyField(a, s), OnlyField(b, s), s))
  /\ DEq(ret.value, DistOf(b, a, s))
  /\ DEq(DistOf(a, a, s), D(0))
  /\ DEq(DistOf(b, b, s), D(0))

\* C23 as stated: for non-empty compatible JointStates a and b, dist(a, b,
\* ALL) equals the sum of the four single-selector distances, each of which
\* depends only on that field of a and b, dist(a, b, s) == dist(b, a, s) and
\* dist(a, a, s) == 0.
C23_Original == DistCase => DistRules(ret.pre, ret.args[1], ret.args[2])

\* C23, amended: the same for non-empty compatible JointStates a and b whose
\* fields hold finite values only.
C23_DistOfFiniteStates ==
  (DistCase /\ FiniteFields(ret.pre) /\ FiniteFields(ret.args[1])) =>
    DistRules(ret.pre, ret.args[1], ret.args[2])

\* the distance over ALL of two finite states that differ in every field
C23_Witness ==
  /\ DistCase
  /\ FiniteFields(ret.pre) /\ FiniteFields(ret.args[1])
  /\ ret.args[2] = "ALL"
  /\ \A s \in SingleSelectors :
       DGt(DistOf(ret.pre, ret.args[1], s), D(0))
  /\ DGt(ret.value, DistOf(ret.pre, ret.args[1], "POSITIONS"))

(***************************************************************************)
(* Claims about the timestamp of a State (checked under SpecTime).         *)
(***************************************************************************)
\* the last call copied the State other into the object this, another one
Copied == tret.op \in {"copy_ctor", "assign"} /\ tret.this # tret.other
CopySource == tret.pre[tret.other]
CopyResult == timed[tret.this]

C24_WitnessConstructed ==
  /\ Copied
  /\ tret.op = "copy_ctor"
  /\ CopySource.timestamp < tret.at
  /\ DGt(State_get_age(timed[tret.other], now), D(0))

\* C25: once a State is constructed its timestamp changes only through an
\* explicit reset_timestamp(): set_name, set_type, set_empty, initialize,
\* field writes and being the target of a copy-assignment leave it unchanged.
C25_TimestampOnlyReset ==
  (tret # NoCall /\ tret.op \notin {"ctor", "copy_ctor", "reset_timestamp"}) =>
    timed[tret.this].timestamp = tret.pre[tret.this].timestamp

\* C25 without the copy-assignment: the setters, initialize, a field write
\* and the two readers of the timestamp leave it unchanged.
C25_SettersKeepTimestamp ==
  (tret # NoCall
     /\ tret.op \notin {"ctor", "copy_ctor", "reset_timestamp", "assign"}) =>
    timed[tret.this].timestamp = tret.pre[tret.this].timestamp

(***************************************************************************)
(* Claims about the conversions over a period (checked under               *)
(* SpecCartesian).                                                         *)
(***************************************************************************)
DtOps == {"div_dt", "mul_dt", "dt_mul"}
DtCalled == cret # NoCall /\ cret.op \in DtOps
\* the period dt in seconds, as the double nearest to dt / 1e9
Seconds(dt) == Round(Norm(dt, NanosPerSecond))

\* C26: CartesianPose / dt, CartesianAcceleration * dt and dt *
\* CartesianAcceleration fail with EmptyState when the operand is empty;
\* otherwise they return a non-empty CartesianTwist with the name and the
\* reference frame of the operand, whose linear velocity is position / period
\* (pose) or period * linear acceleration (acceleration), the period being dt
\* in seconds; the operand is left unchanged.
C26_PeriodConversions ==
  DtCalled =>
    /\ cart = cret.pre
    /\ IF cret.pre.empty THEN cret.outcome = "EmptyState"
       ELSE /\ cret.outcome = "ok"
            /\ cret.value.kind = "CartesianTwist"
            /\ cret.value.type = "CARTESIAN_TWIST"
            /\ ~cret.value.empty
            /\ cret.value.name = cret.pre.name
            /\ cret.value.reference_frame = cret.pre.reference_frame
            /\ cret.value.linear_velocity =
                 (IF cret.op = "div_dt"
                    THEN VDiv(cret.pre.position, Seconds(cret.args[1]))
                    ELSE VScale(Seconds(cret.args[1]),
                                cret.pre.linear_acceleration))

\* a filled pose away from the origin was divided by a quarter of a second
C26_Witness ==
  /\ DtCalled
  /\ cret.op = "div_dt"
  /\ cret.outcome = "ok"
  /\ cret.args[1] = NanosPerSecond \div 4
  /\ cret.pre.position # Zeros(3)
  /\ cret.value.linear_velocity = VScale(D(4), cret.pre.position)

\* an empty acceleration was multiplied from the left and the call failed
C26_WitnessEmpty ==
  /\ DtCalled
  /\ cret.op = "dt_mul"
  /\ cret.pre.empty
  /\ cret.outcome = "EmptyState"

\* a filled acceleration was multiplied by a quarter of a second
C26_WitnessAcceleration ==
  /\ DtCalled
  /\ cret.op = "mul_dt"
  /\ cret.outcome = "ok"
  /\ cret.args[1] = NanosPerSecond \div 4
  /\ cret.pre.linear_acceleration # Zeros(3)

(***************************************************************************)
(* Claims about the construction of a CartesianPose or a                   *)
(* CartesianAcceleration from a CartesianState (checked under              *)
(* SpecCartesian).                                                         *)
(***************************************************************************)
\* the last call built a pose or an acceleration (cret.value) from the
\* CartesianState cret.pre, through the converting constructor or by copy
Converted == cret # NoCall /\ cret.op \in {"ctor_state", "copy"}
\* the fields a projection of that kind keeps
KeptFields(kind) ==
  IF kind = "CartesianPose" THEN {"position", "orientation"}
  ELSE {"linear_acceleration", "angular_acceleration"}
\* the value of a field of a CartesianState that was set to zero
ZeroOf(f) == IF f = "orientation" THEN IdentityQuaternion ELSE Zeros(3)
\* all of C27 but the kept fields: the tag, the name, the reference frame
\* and the empty flag of the source, every other field zero
ProjectionOf(result, source) ==
  /\ result.type = (IF result.kind = "CartesianPose"
                      THEN "CARTESIAN_POSE" ELSE "CARTESIAN_ACCELERATION")
  /\ result.name = source.name
  /\ result.reference_frame = source.reference_frame
  /\ result.empty = source.empty
  /\ \A f \in CartesianFields \ KeptFields(result.kind) :
       result[f] = ZeroOf(f)

\* C27 as stated: constructing a CartesianPose (a CartesianAcceleration)
\* from any CartesianState, including by copy, yields a value with the type
\* tag CARTESIAN_POSE (CARTESIAN_ACCELERATION), with the name, the reference
\* frame and the empty flag of the source, with the pose (the acceleration)
\* of the source and with every other field zero; an empty source yields an
\* empty result.
C27_Original ==
  Converted =>
    /\ ProjectionOf(cret.value, cret.pre)
    /\ \A f \in KeptFields(cret.value.kind) : cret.value[f] = cret.pre[f]

\* twelve units of relative rounding error, 12 * 2^-MantissaBits: what
\* normalising a quaternion that was normalised before can move a
\* coefficient by
RenormTolerance == Norm(12, 2^MantissaBits)
\* the coefficient x is within that tolerance of the coefficient y
WithinRenorm(x, y) ==
  QLe(DAbs(QSub(x, y)), QMul(RenormTolerance, DAbs(y)))

\* C27, amended: the same, the orientation of a pose being that of the
\* source within the rounding of one more normalisation, the position and
\* the acceleration being those of the source exactly.
C27_ProjectionOfSource ==
  Converted =>
    /\ ProjectionOf(cret.value, cret.pre)
    /\ \A f \in KeptFields(cret.value.kind) \ {"orientation"} :
         cret.value[f] = cret.pre[f]
    /\ cret.value.kind = "CartesianPose" =>
         \A i \in 1..4 :
           WithinRenorm(cret.value.orientation[i], cret.pre.orientation[i])

\* the orientation of a pose built from a state differs from that of the
\* state in a coefficient
C27_WitnessRounded ==
  /\ Converted
  /\ cret.value.kind = "CartesianPose"
  /\ cret.value.orientation # cret.pre.orientation
  /\ cret.value.position = cret.pre.position

\* a pose was built from a filled state with a value in every field
C27_Witness ==
  /\ Converted
  /\ cret.op = "ctor_state"
  /\ cret.value.kind = "CartesianPose"
  /\ ~cret.pre.empty
  /\ \A f \in CartesianFields : cret.pre[f] # ZeroOf(f)

\* an acceleration was built from an empty state with a value in every field
C27_WitnessEmpty ==
  /\ Converted
  /\ cret.value.kind = "CartesianAcceleration"
  /\ cret.pre.empty
  /\ cret.value.empty
  /\ \A f \in CartesianFields : cret.pre[f] # ZeroOf(f)

(***************************************************************************)
(* Claims about failed writes of one joint (checked under Spec).           *)
(***************************************************************************)
\* C28: when a single-joint setter fails (by name with a name that is not in
\* names, or by index with a rejected index), the state is left exactly as
\* it was before the call, its empty flag included: a failed write never
\* turns an empty state into a filled one.
C28_FailedSetterLeavesState ==
  (Called({"set_by_name", "set_by_index"}) /\ ret.outcome = "JointNotFound") =>
    js = ret.pre

\* C28 for the setters by index: a rejected index leaves the state as it was.
C28_RejectedIndexLeavesState ==
  (Called({"set_by_index"}) /\ ret.outcome = "JointNotFound") => js = ret.pre

(***************************************************************************)
(* Claims about the order of the checks of +=, -= and dist (under Spec).   *)
(***************************************************************************)
CheckedBinaryOps == {"add_assign", "sub_assign", "dist"}

\* C29: +=, -= and dist check, in this order, that the left operand is not
\* empty, that the right operand is not empty, and that the two are
\* compatible: with an empty operand the failure is EmptyState even when the
\* name lists differ, IncompatibleStates is raised only when both operands
\* are non-empty, and when a check fails neither operand has been modified.
C29_CheckOrder ==
  Called(CheckedBinaryOps) =>
    /\ (ret.pre.empty \/ ret.args[1].empty) => ret.outcome = "EmptyState"
    /\ ret.outcome = "IncompatibleStates" =>
         ~ret.pre.empty /\ ~ret.args[1].empty
    /\ ret.outcome # "ok" => js = ret.pre

\* += is called on a filled state with an empty operand that has other joint
\* names, and fails with EmptyState.
C29_Witness ==
  /\ Called({"add_assign"})
  /\ ~ret.pre.empty
  /\ ret.args[1].empty
  /\ ret.args[1].names # ret.pre.names
  /\ ret.pre.names # <<>>
  /\ ret.outcome = "EmptyState"

\* dist is called on two filled states with different joint names.
C29_WitnessIncompatible ==
  /\ Called({"dist"})
  /\ ret.outcome = "IncompatibleStates"
  /\ ret.args[1].names # ret.pre.names

\* -= is called on an empty state whose joint names differ from the operand's.
C29_WitnessLeftEmpty ==
  /\ Called({"sub_assign"})
  /\ ret.pre.empty
  /\ ~ret.args[1].empty
  /\ ret.args[1].names # ret.pre.names
  /\ ret.outcome = "EmptyState"

(***************************************************************************)
(* Claims about the clamp of one state variable (checked under Spec).      *)
(***************************************************************************)
ClampOps == {"clamp_state_variable_array", "clamp_state_variable"}
\* the maxima and the noise ratios of the last clamp, one per element: the
\* overload taking two doubles hands the same pair to every element
ClampMaxOf ==
  IF ret.op = "clamp_state_variable"
    THEN Const(Len(SelectedBefore), ret.args[2]) ELSE ret.args[2]
ClampNoiseOf ==
  IF ret.op = "clamp_state_variable"
    THEN Const(Len(SelectedBefore), ret.args[3]) ELSE ret.args[3]
ClampSizesMatch ==
  /\ Len(ClampMaxOf) = Len(SelectedBefore)
  /\ Len(ClampNoiseOf) = Len(SelectedBefore)
\* every maximum is >= 0 and every noise ratio lies in [0, 1]
ClampInRange ==
  /\ \A i \in 1..Len(ClampMaxOf) :
       IsFinite(ClampMaxOf[i]) /\ QLe(D(0), ClampMaxOf[i])
  /\ \A i \in 1..Len(ClampNoiseOf) :
       /\ IsFinite(ClampNoiseOf[i])
       /\ QLe(D(0), ClampNoiseOf[i])
       /\ QLe(ClampNoiseOf[i], D(1))
\* the value the rule gives for v: 0 inside the dead zone, sign(v) * max above
\* the maximum, v otherwise
ClampRule(v, max, noise_ratio) ==
  IF /\ noise_ratio # D(0)
     /\ IsFinite(v)
     /\ ~QLe(QMul(noise_ratio, max), DAbs(v))
    THEN D(0)
  ELSE IF DGt(DAbs(v), max)
    THEN (IF v[1] < 0 THEN DNeg(max) ELSE max)
  ELSE v
\* |v| <= max
WithinMax(v, max) == ~IsNaN(v) /\ ~DGt(DAbs(v), max)
\* clamp left every field the selector does not name as it was
UnselectedKept ==
  ret.args[1] \in SingleSelectors =>
    \A f \in {"positions", "velocities", "accelerations", "torques"}
              \ {SelectorField(ret.args[1])} : js[f] = ret.pre[f]

\* C30 (the rule): with every maximum >= 0 and every noise ratio in [0, 1],
\* clamp_state_variable turns each element v of the selected variable into 0
\* if noise_ratio != 0 and |v| < noise_ratio * max, into sign(v) * max if
\* |v| > max, and leaves it otherwise.
C30_ElementRule ==
  (Called(ClampOps) /\ ClampSizesMatch /\ ClampInRange) =>
    /\ ret.outcome = "ok"
    /\ \A i \in 1..Len(SelectedBefore) :
         SelectedAfter[i] =
           ClampRule(SelectedBefore[i], ClampMaxOf[i], ClampNoiseOf[i])

\* C30 (the bound): afterwards every element of the selected variable
\* satisfies |v'| <= max.
C30_Bounded ==
  (Called(ClampOps) /\ ClampSizesMatch /\ ClampInRange) =>
    \A i \in 1..Len(SelectedBefore) :
      WithinMax(SelectedAfter[i], ClampMaxOf[i])

\* C30 (the frame and the failure): the fields that are not selected are
\* unchanged, and a maximum or noise-ratio array of another length than the
\* selected variable fails with IncompatibleSize and leaves the state as it
\* was.
C30_FrameAndSizes ==
  Called(ClampOps) =>
    /\ ret.outcome = "ok" => UnselectedKept
    /\ ~ClampSizesMatch => ret.outcome = "IncompatibleSize" /\ js = ret.pre

\* C30: for JointState clamp_state_variable with per-element max >= 0 and
\* 0 <= noise_ratio <= 1, each element v of the selected field becomes 0 if
\* noise_ratio != 0 and |v| < noise_ratio * max, sign(v) * max if |v| > max,
\* and v otherwise; hence afterwards every element satisfies |v'| <= max, the
\* unselected fields are unchanged, and a max or noise-ratio array whose
\* length differs from the selected field's fails with IncompatibleSize with
\* the state unchanged.
C30_ClampRule == C30_ElementRule /\ C30_Bounded /\ C30_FrameAndSizes

====
